---- MODULE Spec2Model ----
(***************************************************************************)
(* Model of the peer-observer RPC extractor's run loop                     *)
(* (extractors/rpc/src/lib.rs): startup (credentials, RPC client, NATS     *)
(* connection), the periodic tick that runs the enabled queries in their   *)
(* declared order, and the cooperative shutdown through a tokio watch      *)
(* channel raced against the interval timer by tokio's select!.            *)
(***************************************************************************)
EXTENDS Integers, Sequences, FiniteSets, TLC

\* Mutant: uptime is queried before getmempoolinfo.
QueryOrder_Swapped ==
    << "getpeerinfo", "uptime", "getmempoolinfo", "getnettotals",
       "getmemoryinfo", "getaddrmaninfo", "getchaintxstats" >>

\* The queries, in the order run declares them in the tick branch.
QueryOrder ==
    << "getpeerinfo", "getmempoolinfo", "uptime", "getnettotals",
       "getmemoryinfo", "getaddrmaninfo", "getchaintxstats" >>

NumQueries == Len(QueryOrder)

Slots == 1 .. NumQueries

VARIABLES
    args,         \* the Args run was called with
    pc,           \* where run is
    auth,         \* the Auth value built from the credentials
    rpc_client,   \* the RPC client, once built
    nats_client,  \* the NATS client, once connected
    connects,     \* connection attempts made: [rpc |-> n, nats |-> n]
    warned,       \* times "No RPC configured to be queried!" was logged
    timerReady,   \* interval.tick() would complete now
    value,        \* the watch channel's current value
    changed,      \* the channel holds a version shutdown_rx has not seen
    closed,       \* every sender of the channel was dropped
    slot,         \* the query of the tick that is in flight (0: no tick yet)
    calls,        \* queries invoked in the current tick, in order
    published,    \* queries whose event was published in the current tick
    logged,       \* queries whose failure was logged in the current tick
    prevFailed,   \* the tick before the current one logged a failure
    sig,          \* where the loop was when the pending stop was issued
    bus,          \* the messages published in the current tick, in order
    input,        \* the log line handed to parse_log_event
    log,          \* the Log parse_log_event returned
    lpc,          \* where the log classifier is ("off": not in use)
    mutated,      \* what is_mutated_block returned
    response,     \* what the RPC client returned to a query function
    clock,        \* SystemTime::now() when Event::new is called
    rpc_event,    \* the RpcEvent the response was converted to
    proto,        \* what Event::new returned
    qpc           \* where the query function is ("off": not in use)

\* The state of the log classifier.
logvars == << input, log, lpc, mutated >>

\* The state of one query function between its fetch and its publish.
convvars == << response, clock, rpc_event, proto, qpc >>

vars ==
    << args, pc, auth, rpc_client, nats_client, connects, warned, timerReady,
       value, changed, closed, slot, calls, published, logged, prevFailed, sig,
       bus, logvars, convvars >>

----------------------------------------------------------------------------
\* Args

\* The disable_* toggles, one per query, in declaration order.
Toggles == [Slots -> BOOLEAN]

\* clap's "auth" group: exactly one of rpc_cookie_file and rpc_user is
\* given; rpc_password requires rpc_user (and is not required by it).
ClapValid(a) ==
    /\ a.rpc_cookie_file # a.rpc_user
    /\ a.rpc_password => a.rpc_user

\* The credential fields are modelled by their presence (Some / None).
ArgsSet ==
    { a \in [ rpc_cookie_file : BOOLEAN, rpc_user : BOOLEAN,
              rpc_password : BOOLEAN, disable : Toggles ] : ClapValid(a) }

Enabled(a, i) == ~a.disable[i]

\* disable_all of run.
DisableAll(a) == \A i \in Slots : a.disable[i]

\* Mutant: the if-chain does not test the toggles.
NextEnabled_IgnoresToggles(a, i) ==
    IF i > Len(QueryOrder) THEN Len(QueryOrder) + 1 ELSE i

\* The first enabled query at or after position i of the if-chain of the
\* tick branch, NumQueries + 1 when there is none.
RECURSIVE NextEnabled(_, _)
NextEnabled(a, i) ==
    IF i > NumQueries THEN NumQueries + 1
    ELSE IF Enabled(a, i) THEN i
    ELSE NextEnabled(a, i + 1)

----------------------------------------------------------------------------
\* What a query publishes

\* Mutant: getmempoolinfo wraps its result as the getpeerinfo one.
RpcEventOf_CopyPaste(q) ==
    CASE q = "getpeerinfo"     -> "PeerInfos"
      [] q = "getmempoolinfo"  -> "PeerInfos"
      [] q = "uptime"          -> "Uptime"
      [] q = "getnettotals"    -> "NetTotals"
      [] q = "getmemoryinfo"   -> "MemoryInfo"
      [] q = "getaddrmaninfo"  -> "AddrmanInfo"
      [] q = "getchaintxstats" -> "ChainTxStats"

\* The rpc::RpcEvent variant each query function wraps its result in.
RpcEventOf(q) ==
    CASE q = "getpeerinfo"     -> "PeerInfos"
      [] q = "getmempoolinfo"  -> "MempoolInfo"
      [] q = "uptime"          -> "Uptime"
      [] q = "getnettotals"    -> "NetTotals"
      [] q = "getmemoryinfo"   -> "MemoryInfo"
      [] q = "getaddrmaninfo"  -> "AddrmanInfo"
      [] q = "getchaintxstats" -> "ChainTxStats"

\* nats_client.publish(Subject::Rpc.to_string(), proto.encode_to_vec()):
\* the subject and the Event, whose peer_observer_event is the RpcExtractor
\* variant holding an Rpc with that rpc_event.
Message(q) ==
    [ subject |-> "Rpc",
      peer_observer_event |-> "RpcExtractor",
      rpc_event |-> RpcEventOf(q) ]

\* The log variable before parse_log_event has returned.
NoLog ==
    [ log_timestamp |-> "0",
      category |-> "Unknown",
      threadname |-> "",
      log_event |-> [kind |-> "None"] ]

----------------------------------------------------------------------------
\* Startup

\* Option::None: no match of a matcher, and what a query function holds
\* before it has fetched, converted or wrapped anything.
None == [ kind |-> "None" ]

Init ==
    /\ args \in ArgsSet
    /\ pc = "auth"
    /\ auth = "none"
    /\ rpc_client = "none"
    /\ nats_client = FALSE
    /\ connects = [rpc |-> 0, nats |-> 0]
    /\ warned = 0
    /\ timerReady = FALSE
    /\ value = FALSE
    /\ changed = FALSE
    /\ closed = FALSE
    /\ slot = 0
    /\ calls = << >>
    /\ published = << >>
    /\ logged = << >>
    /\ prevFailed = FALSE
    /\ sig = "none"
    /\ bus = << >>
    /\ input = ""
    /\ log = NoLog
    /\ lpc = "off"
    /\ mutated = FALSE
    /\ response = None
    /\ clock = None
    /\ rpc_event = None
    /\ proto = None
    /\ qpc = "off"

\* The Auth match: the cookie file when given, else user and password, each
\* taken with expect, which panics on None.
AuthOf(a) ==
    IF a.rpc_cookie_file THEN "CookieFile"
    ELSE IF a.rpc_user /\ a.rpc_password THEN "UserPass"
    ELSE "panic"

BuildAuth ==
    /\ pc = "auth"
    /\ IF AuthOf(args) = "panic"
       THEN /\ pc' = "panicked"
            /\ auth' = auth
       ELSE /\ pc' = "rpc_client"
            /\ auth' = AuthOf(args)
    /\ UNCHANGED << logvars, convvars, args, rpc_client, nats_client, connects, warned,
                    timerReady, value, changed, closed, slot, calls,
                    published, bus, logged, prevFailed, sig >>

\* Client::new_with_auth(..)?
NewRpcClient ==
    /\ pc = "rpc_client"
    /\ connects' = [connects EXCEPT !.rpc = @ + 1]
    /\ \E ok \in BOOLEAN :
         IF ok
         THEN /\ rpc_client' = auth
              /\ pc' = "nats_connect"
         ELSE /\ rpc_client' = rpc_client
              /\ pc' = "returned_err"
    /\ UNCHANGED << logvars, convvars, args, auth, nats_client, warned, timerReady, value,
                    changed, closed, slot, calls, published, bus, logged,
                    prevFailed, sig >>

\* Mutant: a failed connection to the bus is tried again.
ConnectNats_Retries ==
    /\ pc = "nats_connect"
    /\ connects.nats < 2
    /\ connects' = [connects EXCEPT !.nats = @ + 1]
    /\ \E ok \in BOOLEAN :
         IF ok
         THEN /\ nats_client' = TRUE
              /\ pc' = "setup"
         ELSE /\ nats_client' = nats_client
              /\ pc' = "nats_connect"
    /\ UNCHANGED << logvars, convvars, args, auth, rpc_client, warned, timerReady, value,
                    changed, closed, slot, calls, published, bus, logged,
                    prevFailed, sig >>

\* async_nats::connect(..).await?
ConnectNats ==
    /\ pc = "nats_connect"
    /\ connects' = [connects EXCEPT !.nats = @ + 1]
    /\ \E ok \in BOOLEAN :
         IF ok
         THEN /\ nats_client' = TRUE
              /\ pc' = "setup"
         ELSE /\ nats_client' = nats_client
              /\ pc' = "returned_err"
    /\ UNCHANGED << logvars, convvars, args, auth, rpc_client, warned, timerReady, value,
                    changed, closed, slot, calls, published, bus, logged,
                    prevFailed, sig >>

\* Mutant: having no query to run is an error.
Setup_FailsWhenAllDisabled ==
    /\ pc = "setup"
    /\ timerReady' = TRUE
    /\ warned' = IF DisableAll(args) THEN warned + 1 ELSE warned
    /\ pc' = IF DisableAll(args) THEN "returned_err" ELSE "select"
    /\ UNCHANGED << logvars, convvars, args, auth, rpc_client, nats_client, connects, value,
                    changed, closed, slot, calls, published, bus, logged,
                    prevFailed, sig >>

\* The interval is created (its first tick completes immediately), the
\* enabled queries are logged and the warning is given when none is.
Setup ==
    /\ pc = "setup"
    /\ timerReady' = TRUE
    /\ warned' = IF DisableAll(args) THEN warned + 1 ELSE warned
    /\ pc' = "select"
    /\ UNCHANGED << logvars, convvars, args, auth, rpc_client, nats_client, connects, value,
                    changed, closed, slot, calls, published, bus, logged,
                    prevFailed, sig >>

----------------------------------------------------------------------------
\* The environment: the timer and the sending side of the watch channel

Running == pc \notin {"returned_ok", "returned_err", "panicked"}

\* Where the loop is, as the sender of a stop finds it: waiting in select!
\* after a tick with the timer not due, inside a tick, or elsewhere
\* (starting up, or in select! with the timer already due).
Where ==
    IF pc = "select" /\ slot # 0 /\ ~timerReady THEN "idle"
    ELSE IF pc = "query" THEN "tick"
    ELSE "other"

\* The interval's period elapses.
TimerElapses ==
    /\ pc \in {"select", "query"}
    /\ ~timerReady
    /\ timerReady' = TRUE
    /\ UNCHANGED << logvars, convvars, args, pc, auth, rpc_client, nats_client, connects, warned,
                    value, changed, closed, slot, calls, published, bus, logged,
                    prevFailed, sig >>

\* shutdown_tx.send(v): stores v and bumps the version.
Send ==
    /\ Running
    /\ ~closed
    /\ \E v \in BOOLEAN :
         /\ value' = v
         /\ sig' = IF v THEN Where ELSE "none"
    /\ changed' = TRUE
    /\ UNCHANGED << logvars, convvars, args, pc, auth, rpc_client, nats_client, connects, warned,
                    timerReady, closed, slot, calls, published, bus, logged,
                    prevFailed >>

\* The last sender is dropped.
DropSender ==
    /\ Running
    /\ ~closed
    /\ closed' = TRUE
    /\ sig' = IF sig = "none" THEN Where ELSE sig
    /\ UNCHANGED << logvars, convvars, args, pc, auth, rpc_client, nats_client, connects, warned,
                    timerReady, value, changed, slot, calls, published, bus,
                    logged, prevFailed >>

----------------------------------------------------------------------------
\* The loop: select! over interval.tick() and shutdown_rx.changed()

\* The tick branch up to its first suspension: the if-chain is walked to the
\* first enabled query, which is invoked; with every query disabled the
\* branch is over at once.
StartTick ==
    /\ pc = "select"
    /\ timerReady
    /\ timerReady' = FALSE
    /\ prevFailed' = (logged # << >>)
    /\ published' = << >>
    /\ bus' = << >>
    /\ logged' = << >>
    /\ LET n == NextEnabled(args, 1) IN
         /\ slot' = n
         /\ IF n <= NumQueries
            THEN /\ calls' = << QueryOrder[n] >>
                 /\ pc' = "query"
            ELSE /\ calls' = << >>
                 /\ pc' = "select"
    /\ UNCHANGED << logvars, convvars, args, auth, rpc_client, nats_client, connects, warned,
                    value, changed, closed, sig >>

\* The rest of the tick branch after the query in flight has returned: the
\* next enabled query is invoked, or the branch ends and the loop is back
\* in select!.
Continue ==
    LET n == NextEnabled(args, slot + 1) IN
      /\ slot' = n
      /\ IF n <= NumQueries
         THEN /\ calls' = Append(calls, QueryOrder[n])
              /\ pc' = "query"
         ELSE /\ calls' = calls
              /\ pc' = "select"

\* The query in flight returns Ok(()): fetched, converted, wrapped,
\* encoded and published.
QueryPublishes ==
    /\ pc = "query"
    /\ published' = Append(published, QueryOrder[slot])
    /\ bus' = Append(bus, Message(QueryOrder[slot]))
    /\ logged' = logged
    /\ Continue
    /\ UNCHANGED << logvars, convvars, args, auth, rpc_client, nats_client, connects, warned,
                    timerReady, value, changed, closed, prevFailed, sig >>

\* Mutant: the first failure of a tick ends the tick.
LogFailure_AbortsTick ==
    /\ logged' = Append(logged, QueryOrder[slot])
    /\ published' = published
    /\ bus' = bus
    /\ slot' = NumQueries + 1
    /\ calls' = calls
    /\ pc' = "select"

\* Mutant: a query that failed is invoked once more in the same tick.
LogFailure_Retries ==
    /\ logged' = Append(logged, QueryOrder[slot])
    /\ published' = published
    /\ bus' = bus
    /\ IF QueryOrder[slot] \in {logged[k] : k \in 1 .. Len(logged)}
       THEN Continue
       ELSE /\ slot' = slot
            /\ calls' = Append(calls, QueryOrder[slot])
            /\ pc' = "query"

\* What run does with Err(e) of a query: log::error! with the query's name.
LogFailure ==
    /\ logged' = Append(logged, QueryOrder[slot])
    /\ published' = published
    /\ bus' = bus
    /\ Continue

\* rpc_client.get_..()? returns the error.
FetchFails ==
    /\ pc = "query"
    /\ LogFailure
    /\ UNCHANGED << logvars, convvars, args, auth, rpc_client, nats_client, connects, warned,
                    timerReady, value, changed, closed, prevFailed, sig >>

\* Event::new(..)? returns the error (the clock is before the epoch).
EventNewFails ==
    /\ pc = "query"
    /\ LogFailure
    /\ UNCHANGED << logvars, convvars, args, auth, rpc_client, nats_client, connects, warned,
                    timerReady, value, changed, closed, prevFailed, sig >>

\* nats_client.publish(..).await? returns the error.
PublishFails ==
    /\ pc = "query"
    /\ LogFailure
    /\ UNCHANGED << logvars, convvars, args, auth, rpc_client, nats_client, connects, warned,
                    timerReady, value, changed, closed, prevFailed, sig >>

\* memory_info.into() panics: the response has no "locked" key. Nothing in
\* run catches the unwinding.
ConvertPanics ==
    /\ pc = "query"
    /\ QueryOrder[slot] = "getmemoryinfo"
    /\ pc' = "panicked"
    /\ UNCHANGED << logvars, convvars, args, auth, rpc_client, nats_client, connects, warned,
                    timerReady, value, changed, closed, slot, calls,
                    published, bus, logged, prevFailed, sig >>

\* Mutant: the shutdown branch is also taken while a query is in flight.
HandleChanged_Preempts ==
    /\ pc \in {"select", "query"}
    /\ changed
    /\ changed' = FALSE
    /\ pc' = IF value THEN "returned_ok" ELSE pc
    /\ UNCHANGED << logvars, convvars, args, auth, rpc_client, nats_client, connects, warned,
                    timerReady, value, closed, slot, calls, published, bus,
                    logged, prevFailed, sig >>

\* The shutdown branch without the test of the borrowed value: any change
\* breaks the loop.
HandleChanged_BreaksOnAnyChange ==
    /\ pc = "select"
    /\ changed
    /\ changed' = FALSE
    /\ pc' = "returned_ok"
    /\ UNCHANGED << logvars, convvars, args, auth, rpc_client, nats_client, connects, warned,
                    timerReady, value, closed, slot, calls, published, bus,
                    logged, prevFailed, sig >>

\* shutdown_rx.changed() returns Ok: the new version is marked seen and the
\* loop breaks when the value borrowed is true.
HandleChanged ==
    /\ pc = "select"
    /\ changed
    /\ changed' = FALSE
    /\ pc' = IF value THEN "returned_ok" ELSE "select"
    /\ UNCHANGED << logvars, convvars, args, auth, rpc_client, nats_client, connects, warned,
                    timerReady, value, closed, slot, calls, published, bus,
                    logged, prevFailed, sig >>

\* shutdown_rx.changed() returns Err: no unseen version and no sender.
HandleClosed ==
    /\ pc = "select"
    /\ ~changed
    /\ closed
    /\ pc' = "returned_ok"
    /\ UNCHANGED << logvars, convvars, args, auth, rpc_client, nats_client, connects, warned,
                    timerReady, value, changed, closed, slot, calls,
                    published, bus, logged, prevFailed, sig >>

Next ==
    \/ BuildAuth
    \/ NewRpcClient
    \/ ConnectNats
    \/ Setup
    \/ TimerElapses
    \/ Send
    \/ DropSender
    \/ StartTick
    \/ QueryPublishes
    \/ FetchFails
    \/ EventNewFails
    \/ PublishFails
    \/ ConvertPanics
    \/ HandleChanged
    \/ HandleClosed

Spec == Init /\ [][Next]_vars

\* The steps of the task that owns the loop. A query in flight returns
\* (the upstream answers, the bus acknowledges), and select!, which polls
\* its branches starting from a randomly chosen one, does not pass over a
\* ready shutdown branch forever.
TickStep ==
    \/ StartTick
    \/ QueryPublishes
    \/ FetchFails
    \/ EventNewFails
    \/ PublishFails
    \/ ConvertPanics

ShutdownStep == HandleChanged \/ HandleClosed

FairSpec == Spec /\ WF_vars(TickStep) /\ SF_vars(ShutdownStep)

----------------------------------------------------------------------------
\* Vocabulary of the properties

Range(s) == { s[k] : k \in 1 .. Len(s) }

\* The position of query q in the order the properties name.
DeclaredOrder ==
    << "getpeerinfo", "getmempoolinfo", "uptime", "getnettotals",
       "getmemoryinfo", "getaddrmaninfo", "getchaintxstats" >>

Pos(q) == CHOOSE k \in 1 .. Len(DeclaredOrder) : DeclaredOrder[k] = q

InOrder(s) == \A j, k \in 1 .. Len(s) : j < k => Pos(s[j]) < Pos(s[k])

\* The enabled queries among the first n declared, in declaration order.
RECURSIVE EnabledUpTo(_, _)
EnabledUpTo(a, n) ==
    IF n = 0 THEN << >>
    ELSE IF a.disable[n] THEN EnabledUpTo(a, n - 1)
    ELSE Append(EnabledUpTo(a, n - 1), DeclaredOrder[n])

\* Every enabled query of the latest tick was invoked and has published or
\* had its failure logged (vacuous before the first tick).
TickSettled ==
    slot # 0 =>
      /\ calls = EnabledUpTo(args, Len(DeclaredOrder))
      /\ Range(calls) = Range(published) \cup Range(logged)

\* The query in flight returns an error.
ReturnsErr == FetchFails \/ EventNewFails \/ PublishFails

\* The enabled queries declared after the one in flight.
LaterEnabled == { k \in Slots : k > slot /\ ~args.disable[k] }

\* A stop is there for the loop to observe.
StopPending == (changed /\ value) \/ closed

----------------------------------------------------------------------------
\* C1 (as stated): whenever the query in flight fails, at fetch, convert,
\* wrap or publish, the failure is logged with the query's name and the tick
\* goes on: the next enabled query is invoked, or the loop is back in
\* select!.
C1_AnyFailureIsCaught ==
    [][ (ReturnsErr \/ ConvertPanics) =>
          /\ logged' = Append(logged, QueryOrder[slot])
          /\ pc' \in {"query", "select"} ]_vars

\* C1 (amended): an error returned by fetch, Event::new or publish is
\* logged with the query's name, the next enabled query after it is invoked
\* in the same tick (the loop is back in select! when there is none), and
\* in select! a due timer can always start the next tick, whatever failed;
\* the panic of getmemoryinfo's conversion is not logged and ends run: no
\* step of the loop can follow it.
C1_ErrorsAreIsolated ==
    /\ [][ ReturnsErr =>
             /\ logged' = Append(logged, QueryOrder[slot])
             /\ published' = published
             /\ IF LaterEnabled = {}
                THEN pc' = "select" /\ calls' = calls
                ELSE /\ pc' = "query"
                     /\ calls' = Append(calls, DeclaredOrder[
                          CHOOSE k \in LaterEnabled :
                            \A m \in LaterEnabled : k <= m]) ]_vars
    /\ [][ ConvertPanics =>
             /\ pc' = "panicked"
             /\ logged' = logged
             /\ calls' = calls ]_vars
    /\ [](pc = "select" /\ timerReady => ENABLED StartTick)
    /\ [](pc = "select" => TickSettled)
    /\ [](pc = "panicked" => ~ENABLED Next)

\* A tick that follows a tick with a logged failure, in which a query has
\* failed and a query declared after it was invoked.
C1_Witness ==
    /\ prevFailed
    /\ \E q \in Range(logged) : \E r \in Range(calls) : Pos(r) > Pos(q)

----------------------------------------------------------------------------
\* C2 (as stated): once a stop was issued (true sent, or the sender
\* dropped) while the loop was waiting in select! between two ticks, with
\* the timer not due, and for as long as that stop is the one pending, the
\* loop starts no new tick.
C2_StopWhileIdleStartsNoTick ==
    [][ sig = "idle" => ~StartTick ]_vars

----------------------------------------------------------------------------
\* C3: the shutdown branch is taken, and run returns Ok, only from select!
\* with the latest tick settled: each of its enabled queries was invoked and
\* has published or had its failure logged; and while a query is in flight
\* the shutdown branch cannot be taken.
C3_ShutdownNeverPreempts ==
    /\ [][ (HandleChanged \/ HandleClosed \/ pc' = "returned_ok") =>
             (pc \in {"select", "returned_ok"} /\ TickSettled) ]_vars
    /\ [](pc = "query" => ~ENABLED (HandleChanged \/ HandleClosed))

\* run has returned Ok on a stop that was issued while a query of the tick
\* was in flight, after a tick in which a query published and one failed.
C3_Witness ==
    /\ pc = "returned_ok"
    /\ sig = "tick"
    /\ published # << >>
    /\ logged # << >>

----------------------------------------------------------------------------
\* C4: within a tick the queries are invoked, and publish, in the declared
\* order getpeerinfo .. getchaintxstats, one at a time (the query invoked
\* last is the only one that can be unsettled); a tick starts only from
\* select! with the tick before it settled.
C4_TicksDoNotInterleave ==
    /\ [](/\ InOrder(calls)
          /\ InOrder(published)
          /\ InOrder(logged)
          /\ \A k \in 1 .. Len(calls) - 1 :
               calls[k] \in Range(published) \cup Range(logged)
          /\ Range(published) \cup Range(logged) \subseteq Range(calls))
    /\ [][ StartTick => (pc = "select" /\ TickSettled) ]_vars
    /\ [][ calls' # calls =>
             \/ StartTick
             \/ /\ pc = "query"
                /\ Len(calls') = Len(calls) + 1
                /\ calls[Len(calls)] \in Range(published') \cup Range(logged')
          ]_vars

\* The second query of a later tick is in flight after the first published,
\* with every query enabled.
C4_Witness ==
    /\ prevFailed
    /\ pc = "query"
    /\ \A k \in Slots : ~args.disable[k]
    /\ calls = << "getpeerinfo", "getmempoolinfo", "uptime" >>
    /\ published = << "getpeerinfo", "getmempoolinfo" >>

----------------------------------------------------------------------------
\* C5 (as stated, its bound): once a stop was issued while a tick was in
\* progress, and for as long as that stop is the one pending, no further
\* tick starts: the tick in progress is the last.
C5_NoTickAfterStopDuringTick ==
    [][ sig = "tick" => ~StartTick ]_vars

----------------------------------------------------------------------------
\* C6: a failed attempt to build the RPC client or to connect to the bus
\* leaves run returned with an error, each connection is attempted at most
\* once, and a run that returned an error has started no tick, invoked no
\* query, published nothing and can take no further step.
C6_ConnectFailureIsFatal ==
    /\ connects.rpc <= 1
    /\ connects.nats <= 1
    /\ (connects.rpc = 1 /\ rpc_client = "none") => pc = "returned_err"
    /\ (connects.nats = 1 /\ ~nats_client) => pc = "returned_err"
    /\ pc = "returned_err" =>
         /\ slot = 0
         /\ calls = << >>
         /\ published = << >>
         /\ logged = << >>
         /\ ~ENABLED Next

\* run has returned an error because the bus could not be reached, the RPC
\* client having been built.
C6_Witness ==
    /\ pc = "returned_err"
    /\ rpc_client # "none"
    /\ connects.nats = 1
    /\ ~nats_client

----------------------------------------------------------------------------
\* C7 (as stated): with no credential file and no complete user/password
\* pair, run ends in no other way than by returning an error.
C7_BadCredentialsReturnError ==
    (~args.rpc_cookie_file /\ ~(args.rpc_user /\ args.rpc_password)) =>
      pc \in {"auth", "returned_err"}

----------------------------------------------------------------------------
\* C8: a disabled query is never invoked, published or logged; and whether
\* a query whose turn has come in the tick was invoked depends on its own
\* toggle alone: it was invoked exactly if it is enabled, in declaration
\* order, and the queries whose turn has not come were not.
C8_TogglesAreIndependent ==
    /\ \A k \in Slots :
         args.disable[k] =>
           DeclaredOrder[k] \notin
             Range(calls) \cup Range(published) \cup Range(logged)
    /\ \A k \in Slots :
         (DeclaredOrder[k] \in Range(calls)) <=> (k <= slot /\ ~args.disable[k])
    /\ InOrder(calls)
    /\ pc = "select" => TickSettled

\* A tick has ended in which a disabled query lies between two enabled
\* ones that both published.
C8_Witness ==
    /\ pc = "select"
    /\ \E i, j, k \in Slots :
         /\ i < j /\ j < k
         /\ args.disable[j]
         /\ DeclaredOrder[i] \in Range(published)
         /\ DeclaredOrder[k] \in Range(published)

----------------------------------------------------------------------------
\* C9: with every query disabled, the warning is logged once, by the time
\* the loop is entered, and never again; once both connections are made run
\* is setting up, in select! or has returned Ok; nothing is ever invoked,
\* published or logged as failed; a due timer still starts a tick; and the
\* shutdown branch still ends run with Ok when the value is true or the
\* sender is gone, which under FairSpec it eventually does once the sender
\* is gone or for as long as the value stays true.
C9_AllDisabledStillRuns ==
    /\ [](DisableAll(args) =>
            /\ warned = (IF pc \in {"select", "returned_ok"} THEN 1 ELSE 0)
            /\ nats_client => pc \in {"setup", "select", "returned_ok"}
            /\ calls = << >> /\ published = << >> /\ logged = << >>
            /\ (pc = "select" /\ timerReady) => ENABLED StartTick
            /\ (pc = "select" /\ StopPending) =>
                  ENABLED (HandleChanged \/ HandleClosed))
    /\ [][ (DisableAll(args) /\ (HandleClosed \/ (HandleChanged /\ value))) =>
             pc' = "returned_ok" ]_vars
    /\ (DisableAll(args) /\ pc = "select" /\ closed) ~> (pc = "returned_ok")
    /\ (DisableAll(args) /\ pc = "select" /\ changed /\ value) ~>
         (pc = "returned_ok" \/ ~value)

\* With every query disabled, run has warned once, gone through a tick and
\* returned Ok on a stop.
C9_Witness ==
    /\ DisableAll(args)
    /\ warned = 1
    /\ slot = NumQueries + 1
    /\ pc = "returned_ok"

----------------------------------------------------------------------------
\* C10: in a tick no query is invoked twice, publishes twice or has both
\* published and failed; when the tick has ended every enabled query was
\* invoked; and a query whose failure is logged is invoked again only by
\* the start of a tick, from select! on a due timer.
C10_NoRetryWithinTick ==
    /\ [](/\ Cardinality(Range(calls)) = Len(calls)
          /\ Cardinality(Range(published)) = Len(published)
          /\ Cardinality(Range(logged)) = Len(logged)
          /\ Range(published) \cap Range(logged) = {}
          /\ pc = "select" => TickSettled)
    /\ [][ (calls' # calls /\ calls' # << >>
              /\ calls'[Len(calls')] \in Range(logged)) =>
             (StartTick /\ pc = "select" /\ timerReady) ]_vars

\* getpeerinfo, the one enabled query, failed in the tick before and is in
\* flight again in this one.
C10_Witness ==
    /\ prevFailed
    /\ pc = "query"
    /\ calls = << "getpeerinfo" >>
    /\ \A k \in Slots : args.disable[k] <=> k # 1

----------------------------------------------------------------------------
\* C11: every message published in a tick has the subject Rpc and an
\* envelope whose payload is the RpcExtractor variant with the sub-event of
\* the query that published it: getpeerinfo PeerInfos, getmempoolinfo
\* MempoolInfo, uptime Uptime, getnettotals NetTotals, getmemoryinfo
\* MemoryInfo, getaddrmaninfo AddrmanInfo, getchaintxstats ChainTxStats.
C11_SubEvents ==
    << "PeerInfos", "MempoolInfo", "Uptime", "NetTotals", "MemoryInfo",
       "AddrmanInfo", "ChainTxStats" >>

C11_FixedSubjectAndVariant ==
    /\ Len(bus) = Len(published)
    /\ \A k \in 1 .. Len(bus) :
         /\ bus[k].subject = "Rpc"
         /\ bus[k].peer_observer_event = "RpcExtractor"
         /\ bus[k].rpc_event = C11_SubEvents[Pos(published[k])]

\* A tick in which all seven queries have published.
C11_Witness ==
    /\ Len(bus) = NumQueries
    /\ { bus[k].rpc_event : k \in 1 .. Len(bus) } = Range(C11_SubEvents)

----------------------------------------------------------------------------
\* Text.  A &str is a string; At, From and the class runs are what the regex
\* engine sees of it.

Min(S) == CHOOSE x \in S : \A y \in S : x <= y

Max(S) == CHOOSE x \in S : \A y \in S : y <= x

At(s, i) == SubSeq(s, i, i)

From(s, i) == SubSeq(s, i, Len(s))

\* s has the literal lit at position i.
LitAt(s, i, lit) ==
    /\ i + Len(lit) - 1 <= Len(s)
    /\ SubSeq(s, i, i + Len(lit) - 1) = lit

\* \d, restricted to the characters the inputs are made of.
Digit == { "0", "1", "2", "3", "4", "5", "6", "7", "8", "9" }

\* \s
Space == { " ", "\t", "\n", "\r", "\f" }

\* [0-9a-f]
Hex == Digit \cup { "a", "b", "c", "d", "e", "f" }

\* The length of the longest run of class characters that starts at
\* position i; class is a set of characters and negated says whether the run
\* is of the characters outside it.
RunLen(s, i, class, negated) ==
    LET stops == { k \in i .. Len(s) : (At(s, k) \in class) = negated }
    IN  IF i > Len(s) THEN 0
        ELSE IF stops = {} THEN Len(s) - i + 1
        ELSE Min(stops) - i

\* The first position >= i at which lit occurs in s, 0 when there is none.
Find(s, i, lit) ==
    LET found == { k \in i .. Len(s) : LitAt(s, k, lit) }
    IN  IF found = {} THEN 0 ELSE Min(found)

\* str::to_uppercase on the letters the inputs are made of.
Lower == "abcdefghijklmnopqrstuvwxyz"
Upper == "ABCDEFGHIJKLMNOPQRSTUVWXYZ"

UpperChar(c) ==
    LET k == Find(Lower, 1, c) IN IF k = 0 THEN c ELSE At(Upper, k)

RECURSIVE to_uppercase(_)
to_uppercase(s) ==
    IF s = "" THEN "" ELSE UpperChar(Head(s)) \o to_uppercase(Tail(s))

----------------------------------------------------------------------------
\* Numbers wider than the checker's integers: decimal digits, least
\* significant first.

DigitVal(c) == Find("0123456789", 1, c) - 1

DigitChar(d) == At("0123456789", d + 1)

\* The digits of a decimal string.
ToDigits(str) ==
    [ i \in 1 .. Len(str) |-> DigitVal(At(str, Len(str) + 1 - i)) ]

\* Without leading zeros; zero is << 0 >>.
RECURSIVE Norm(_)
Norm(a) ==
    IF Len(a) > 1 /\ a[Len(a)] = 0 THEN Norm(SubSeq(a, 1, Len(a) - 1))
    ELSE IF a = << >> THEN << 0 >>
    ELSE a

RECURSIVE ToDecimal(_)
ToDecimal(a) ==
    IF a = << >> THEN "" ELSE ToDecimal(Tail(a)) \o DigitChar(Head(a))

RECURSIVE AddCarry(_, _, _)
AddCarry(a, b, c) ==
    IF a = << >> /\ b = << >>
    THEN IF c = 0 THEN << >> ELSE << c >>
    ELSE LET x == IF a = << >> THEN 0 ELSE Head(a)
             y == IF b = << >> THEN 0 ELSE Head(b)
             ta == IF a = << >> THEN << >> ELSE Tail(a)
             tb == IF b = << >> THEN << >> ELSE Tail(b)
         IN  << (x + y + c) % 10 >> \o AddCarry(ta, tb, (x + y + c) \div 10)

BigAdd(a, b) == Norm(AddCarry(a, b, 0))

\* a - b for a >= b.
RECURSIVE SubBorrow(_, _, _)
SubBorrow(a, b, c) ==
    IF a = << >> THEN << >>
    ELSE LET y == IF b = << >> THEN 0 ELSE Head(b)
             tb == IF b = << >> THEN << >> ELSE Tail(b)
             d == Head(a) - y - c
         IN  << (d + 10) % 10 >>
               \o SubBorrow(Tail(a), tb, IF d < 0 THEN 1 ELSE 0)

BigSub(a, b) == Norm(SubBorrow(a, b, 0))

\* a * n for a small n.
RECURSIVE MulCarry(_, _, _)
MulCarry(a, n, c) ==
    IF a = << >>
    THEN IF c = 0 THEN << >> ELSE << c % 10 >> \o MulCarry(a, n, c \div 10)
    ELSE << (Head(a) * n + c) % 10 >>
           \o MulCarry(Tail(a), n, (Head(a) * n + c) \div 10)

BigMul(a, n) == Norm(MulCarry(a, n, 0))

\* a * 10^k
RECURSIVE Shift(_, _)
Shift(a, k) == IF k = 0 THEN Norm(a) ELSE Shift(<< 0 >> \o a, k - 1)

\* a div n, truncated, for a small n.
RECURSIVE DivRem(_, _, _)
DivRem(a, n, r) ==
    IF a = << >> THEN << >>
    ELSE LET cur == r * 10 + a[Len(a)]
         IN  DivRem(SubSeq(a, 1, Len(a) - 1), n, cur % n) \o << cur \div n >>

BigDiv(a, n) == Norm(DivRem(a, n, 0))

\* a < b, both without leading zeros.
RECURSIVE BigLess(_, _)
BigLess(a, b) ==
    IF Len(a) # Len(b) THEN Len(a) < Len(b)
    ELSE IF a = << >> THEN FALSE
    ELSE IF a[Len(a)] # b[Len(b)] THEN a[Len(a)] < b[Len(b)]
    ELSE BigLess(SubSeq(a, 1, Len(a) - 1), SubSeq(b, 1, Len(b) - 1))

\* A small natural number as digits.
RECURSIVE NatDigits(_)
NatDigits(n) ==
    IF n < 10 THEN << n >> ELSE << n % 10 >> \o NatDigits(n \div 10)

----------------------------------------------------------------------------
\* The timestamp of a line

NANOS_PER_MICRO == 1000

\* RFC3339_DATE_PATTERN up to the seconds: d stands for \d, every other
\* character for itself.
DateShape == "dddd-dd-ddTdd:dd:dd"

\* The most digits (?:\.\d{1,6})? takes.
MaxFraction == 6

ShapeAt(s) ==
    /\ Len(s) >= Len(DateShape)
    /\ \A i \in 1 .. Len(DateShape) :
         IF At(DateShape, i) = "d"
         THEN At(s, i) \in Digit
         ELSE At(s, i) = At(DateShape, i)

\* Where ^(?P<timestamp>...) ends in s: the position of its Z, 0 when the
\* line does not start with a timestamp.
TimestampEnd(s) ==
    LET n == Len(DateShape)
        f == RunLen(s, n + 2, Digit, FALSE)
    IN  IF ~ShapeAt(s) THEN 0
        ELSE IF LitAt(s, n + 1, "Z") THEN n + 1
        ELSE IF /\ LitAt(s, n + 1, ".")
                /\ f \in 1 .. MaxFraction
                /\ LitAt(s, n + 2 + f, "Z")
        THEN n + 2 + f
        ELSE 0

\* The value of a short run of digits.
RECURSIVE Num(_)
Num(str) ==
    IF str = "" THEN 0
    ELSE Num(SubSeq(str, 1, Len(str) - 1)) * 10 + DigitVal(At(str, Len(str)))

Year(ts) == Num(SubSeq(ts, 1, 4))
Month(ts) == Num(SubSeq(ts, 6, 7))
Day(ts) == Num(SubSeq(ts, 9, 10))
Hour(ts) == Num(SubSeq(ts, 12, 13))
Minute(ts) == Num(SubSeq(ts, 15, 16))
Second(ts) == Num(SubSeq(ts, 18, 19))

\* The digits after the point, "" when there is no point.
Fraction(ts) ==
    IF Len(ts) <= Len(DateShape) + 1 THEN ""
    ELSE SubSeq(ts, Len(DateShape) + 2, Len(ts) - 1)

IsLeapYear(y) == y % 4 = 0 /\ (y % 100 # 0 \/ y % 400 = 0)

DaysInMonth(y, m) ==
    IF m = 2 THEN (IF IsLeapYear(y) THEN 29 ELSE 28)
    ELSE IF m \in { 4, 6, 9, 11 } THEN 30
    ELSE 31

\* OffsetDateTime::parse(ts, &Rfc3339) is Ok: every component is in its
\* range.  (A second of 60 is outside the inputs considered.)
ParseOk(ts) ==
    /\ Month(ts) \in 1 .. 12
    /\ Day(ts) \in 1 .. DaysInMonth(Year(ts), Month(ts))
    /\ Hour(ts) <= 23
    /\ Minute(ts) <= 59
    /\ Second(ts) <= 59

\* Days from 1970-01-01 to the given date of the proleptic Gregorian
\* calendar, negative before it.
DaysFromCivil(y, m, d) ==
    LET yy == IF m <= 2 THEN y - 1 ELSE y
        era == yy \div 400
        yoe == yy - era * 400
        mp == IF m > 2 THEN m - 3 ELSE m + 9
        doy == (153 * mp + 2) \div 5 + d - 1
        doe == yoe * 365 + yoe \div 4 - yoe \div 100 + doy
    IN  era * 146097 + doe - 719468

\* s followed by zeros up to n characters.
RECURSIVE PadRight(_, _)
PadRight(s, n) == IF Len(s) >= n THEN s ELSE PadRight(s \o "0", n)

\* dt.unix_timestamp_nanos(): a signed value, as sign and magnitude.
unix_timestamp_nanos(ts) ==
    LET days == DaysFromCivil(Year(ts), Month(ts), Day(ts))
        secs == Hour(ts) * 3600 + Minute(ts) * 60 + Second(ts)
        inDay == BigAdd(Shift(NatDigits(secs), 9),
                        Norm(ToDigits(PadRight(Fraction(ts), 9))))
        DayNanos(n) == Shift(BigMul(NatDigits(n), 86400), 9)
    IN  IF days >= 0
        THEN [ neg |-> FALSE, mag |-> BigAdd(DayNanos(days), inDay) ]
        ELSE [ neg |-> TRUE, mag |-> BigSub(DayNanos(-days), inDay) ]

\* match OffsetDateTime::parse(..) { Ok(dt) => .., Err(_) => 0 }
timestamp_nano(ts) ==
    IF ParseOk(ts) THEN unix_timestamp_nanos(ts)
    ELSE [ neg |-> FALSE, mag |-> << 0 >> ]

TwoPow64 == ToDigits("18446744073709551616")

\* x as u64 for an i128 x of magnitude below 2^64: a negative value wraps.
as_u64(x) ==
    IF x.neg /\ x.mag # << 0 >> THEN BigSub(TwoPow64, x.mag) ELSE x.mag

\* (timestamp_nano / NANOS_PER_MICRO) as u64, in decimal.
timestamp_micro(ts) ==
    LET nano == timestamp_nano(ts)
    IN  ToDecimal(as_u64([ neg |-> nano.neg,
                           mag |-> BigDiv(nano.mag, NANOS_PER_MICRO) ]))

----------------------------------------------------------------------------
\* The structure of a line

\* METADATA_PATTERN at position i of s: the position of its closing
\* bracket, 0 when it does not match there.
MetadataAt(s, i) ==
    LET n == RunLen(s, i + 1, { "]" }, TRUE)
    IN  IF LitAt(s, i, "[") /\ n >= 1 /\ LitAt(s, i + 1 + n, "]")
        THEN i + 1 + n
        ELSE 0

\* (?P<message>.*)$ in the place of .+: the message may be empty.
MessageAt_MayBeEmpty(s, i) ==
    /\ i <= Len(s) + 1
    /\ \A k \in i .. Len(s) : At(s, k) # "\n"

\* (?P<message>.+)$ at position i: at least one character, none of them a
\* line feed, up to the end of the text.
MessageAt(s, i) ==
    /\ i <= Len(s)
    /\ \A k \in i .. Len(s) : At(s, k) # "\n"

\* (?:METADATA_PATTERN\s+)*(?P<message>.+)$ at position i: the position
\* where the message starts, 0 when there is no match.  One more token is
\* preferred to none and a longer \s+ to a shorter one.
RECURSIVE MetadataLoop(_, _)
MetadataLoop(s, i) ==
    LET e == MetadataAt(s, i)
        w == IF e = 0 THEN 0 ELSE RunLen(s, e + 1, Space, FALSE)
        K == { k \in 1 .. w : MetadataLoop(s, e + k + 1) # 0 }
    IN  IF K # {} THEN MetadataLoop(s, e + Max(K) + 1)
        ELSE IF MessageAt(s, i) THEN i
        ELSE 0

\* LOG_LINE_REGEX.captures(line): the three named groups, or no match.
LOG_LINE_REGEX(s) ==
    LET e == TimestampEnd(s)
        w == IF e = 0 THEN 0 ELSE RunLen(s, e + 1, Space, FALSE)
        K == { k \in 1 .. w : MetadataLoop(s, e + k + 1) # 0 }
        a == e + Max(K) + 1
        m == MetadataLoop(s, a)
    IN  IF K = {}
        THEN [ is_none |-> TRUE, timestamp |-> "", metadata |-> "",
               message |-> "" ]
        ELSE [ is_none |-> FALSE,
               timestamp |-> SubSeq(s, 1, e),
               metadata |-> SubSeq(s, a, m - 1),
               message |-> From(s, m) ]

\* METADATA_REGEX.captures_iter(metadata).map(|cap| cap[1]): the contents
\* of the successive leftmost matches from position i on.
RECURSIVE captures_iter(_, _)
captures_iter(s, i) ==
    LET found == { k \in i .. Len(s) : MetadataAt(s, k) # 0 }
        k == Min(found)
    IN  IF found = {} THEN << >>
        ELSE << SubSeq(s, k + 1, MetadataAt(s, k) - 1) >>
               \o captures_iter(s, MetadataAt(s, k) + 1)

\* LogDebugCategory::from_str_name for the names the tests of
\* log_matchers.rs show; "None" for any other name.
from_str_name(name) ==
    CASE name = "NET" -> "Net"
      [] name = "VALIDATION" -> "Validation"
      [] OTHER -> "None"

\* Mutant: the first item is tested for a category, not the last.
parse_metadata_FirstIsCategory(items) ==
    LET cat == IF items = << >> THEN "None"
               ELSE from_str_name(to_uppercase(Head(items)))
        rest == IF cat = "None" THEN items ELSE Tail(items)
    IN  [ category |-> IF cat = "None" THEN "Unknown" ELSE cat,
          threadname |-> IF rest = << >> THEN "" ELSE rest[Len(rest)] ]

\* The category and the threadname the metadata items give: the last item
\* is popped when it names a category, the first one left is the
\* threadname.
parse_metadata(items) ==
    LET cat == IF items = << >> THEN "None"
               ELSE from_str_name(to_uppercase(items[Len(items)]))
        rest == IF cat = "None" THEN items
                ELSE SubSeq(items, 1, Len(items) - 1)
    IN  [ category |-> IF cat = "None" THEN "Unknown" ELSE cat,
          threadname |-> IF rest = << >> THEN "" ELSE Head(rest) ]

\* Mutant: a timestamp that does not parse gives the defaults.
parse_common_log_data_StrictTimestamp(line) ==
    LET caps == LOG_LINE_REGEX(line)
        meta == parse_metadata(captures_iter(caps.metadata, 1))
    IN  IF caps.is_none \/ ~ParseOk(caps.timestamp)
        THEN [ timestamp_micro |-> "0", category |-> "Unknown",
               threadname |-> "", message |-> "" ]
        ELSE [ timestamp_micro |-> timestamp_micro(caps.timestamp),
               category |-> meta.category,
               threadname |-> meta.threadname,
               message |-> caps.message ]

\* Mutant: a line without a timestamp is still searched for its metadata
\* and keeps its text as message.
parse_common_log_data_Unanchored(line) ==
    LET caps == LOG_LINE_REGEX(line)
        meta == parse_metadata(captures_iter(
                    IF caps.is_none THEN line ELSE caps.metadata, 1))
    IN  [ timestamp_micro |->
              IF caps.is_none THEN "0" ELSE timestamp_micro(caps.timestamp),
          category |-> meta.category,
          threadname |-> meta.threadname,
          message |-> IF caps.is_none THEN line ELSE caps.message ]

parse_common_log_data(line) ==
    LET caps == LOG_LINE_REGEX(line)
        meta == parse_metadata(captures_iter(caps.metadata, 1))
    IN  IF caps.is_none
        THEN [ timestamp_micro |-> "0", category |-> "Unknown",
               threadname |-> "", message |-> "" ]
        ELSE [ timestamp_micro |-> timestamp_micro(caps.timestamp),
               category |-> meta.category,
               threadname |-> meta.threadname,
               message |-> caps.message ]

----------------------------------------------------------------------------
\* The matchers

\* BLOCK_HASH_PATTERN repeats its class this many times.
HashLen == 64

\* The largest u32, in decimal.
U32_MAX == "4294967295"

\* BLOCK_HASH_PATTERN at position i.
HashAt(s, i) ==
    /\ i + HashLen - 1 <= Len(s)
    /\ \A k \in i .. i + HashLen - 1 : At(s, k) \in Hex

\* lit, then a block hash, then the literal after, at position i: the
\* position after all three, 0 when they do not match there.
BlockPrefixAt(s, i, lit, after) ==
    IF /\ LitAt(s, i, lit)
       /\ HashAt(s, i + Len(lit))
       /\ LitAt(s, i + Len(lit) + HashLen, after)
    THEN i + Len(lit) + HashLen + Len(after)
    ELSE 0

ConnectedLit == "BlockConnected: block hash="
HeightLit == " block height="

\* BLOCK_CONNECTED_REGEX at position i.
BlockConnectedAt(s, i) ==
    /\ BlockPrefixAt(s, i, ConnectedLit, HeightLit) # 0
    /\ RunLen(s, BlockPrefixAt(s, i, ConnectedLit, HeightLit), Digit, FALSE) >= 1

\* BLOCK_CONNECTED_REGEX.captures(s): where the leftmost match at or after
\* position i starts, 0 when there is none.
BlockConnectedFrom(s, i) ==
    LET found == { k \in i .. Len(s) : BlockConnectedAt(s, k) }
    IN  IF found = {} THEN 0 ELSE Min(found)

\* str::parse::<u32>() of a run of digits: the value in decimal, "" for
\* Err.
parse_u32(digits) ==
    LET v == Norm(ToDigits(digits))
    IN  IF BigLess(ToDigits(U32_MAX), v) THEN "" ELSE ToDecimal(v)

\* Mutant: a later occurrence is tried when the height of the leftmost one
\* does not fit.
RECURSIVE BlockConnectedLog_parse_event_Retries(_)
BlockConnectedLog_parse_event_Retries(s) ==
    LET i == BlockConnectedFrom(s, 1)
        h == BlockPrefixAt(s, i, ConnectedLit, HeightLit)
        digits == SubSeq(s, h, h + RunLen(s, h, Digit, FALSE) - 1)
    IN  IF i = 0 THEN None
        ELSE IF parse_u32(digits) = ""
        THEN BlockConnectedLog_parse_event_Retries(From(s, i + 1))
        ELSE [ kind |-> "BlockConnectedLog",
               block_hash |-> SubSeq(s, h - Len(HeightLit) - HashLen,
                                     h - Len(HeightLit) - 1),
               block_height |-> parse_u32(digits) ]

\* BlockConnectedLog::parse_event
BlockConnectedLog_parse_event(s) ==
    LET i == BlockConnectedFrom(s, 1)
        h == BlockPrefixAt(s, i, ConnectedLit, HeightLit)
        digits == SubSeq(s, h, h + RunLen(s, h, Digit, FALSE) - 1)
    IN  IF i = 0 \/ parse_u32(digits) = "" THEN None
        ELSE [ kind |-> "BlockConnectedLog",
               block_hash |-> SubSeq(s, h - Len(HeightLit) - HashLen,
                                     h - Len(HeightLit) - 1),
               block_height |-> parse_u32(digits) ]

CheckedLit == "BlockChecked: block hash="
StateLit == " state="

\* (?:,\s|$) at position q.
SeparatorAt(s, q) ==
    \/ /\ LitAt(s, q, ",")
       /\ q + 1 <= Len(s)
       /\ At(s, q + 1) \in Space
    \/ q > Len(s)

\* (.*?)(?:,\s|$) at position p: how many characters the lazy group takes,
\* the fewest that reach a separator or the end; -1 when a line feed stops
\* it before that.
StateLen(s, p) ==
    LET n == Min({ k \in 0 .. Len(s) + 1 - p : SeparatorAt(s, p + k) })
    IN  IF RunLen(s, p, { "\n" }, TRUE) >= n THEN n ELSE 0 - 1

\* BLOCK_CHECKED_REGEX at position i.
BlockCheckedAt(s, i) ==
    /\ BlockPrefixAt(s, i, CheckedLit, StateLit) # 0
    /\ StateLen(s, BlockPrefixAt(s, i, CheckedLit, StateLit)) >= 0

\* BLOCK_CHECKED_REGEX.captures(s): where the leftmost match at or after
\* position i starts, 0 when there is none.
BlockCheckedFrom(s, i) ==
    LET found == { k \in i .. Len(s) : BlockCheckedAt(s, k) }
    IN  IF found = {} THEN 0 ELSE Min(found)

\* BlockCheckedLog::parse_event
BlockCheckedLog_parse_event(s) ==
    LET i == BlockCheckedFrom(s, 1)
        p == BlockPrefixAt(s, i, CheckedLit, StateLit)
        n == StateLen(s, p)
        d == p + n + 2
    IN  IF i = 0 THEN None
        ELSE [ kind |-> "BlockCheckedLog",
               block_hash |-> SubSeq(s, p - Len(StateLit) - HashLen,
                                     p - Len(StateLit) - 1),
               state |-> SubSeq(s, p, p + n - 1),
               debug_message |->
                   IF d > Len(s) THEN ""
                   ELSE SubSeq(s, d, d + RunLen(s, d, { "\n" }, TRUE) - 1) ]

\* UnknownLogMessage::parse_event
UnknownLogMessage_parse_event(s) ==
    [ kind |-> "UnknownLogMessage", raw_message |-> s ]

\* The literals of is_mutated_block, one dropped: a mutant.
MutatedStates_OneDropped ==
    { "bad-txnmrklroot", "bad-txns-duplicate", "bad-witness-nonce-size",
      "bad-witness-merkle-match" }

\* The literals of BlockCheckedLog::is_mutated_block.
MutatedStates ==
    { "bad-txnmrklroot", "bad-txns-duplicate", "bad-witness-nonce-size",
      "bad-witness-merkle-match", "unexpected-witness" }

is_mutated_block(event) == event.state \in MutatedStates

\* Mutant: BlockChecked is registered before BlockConnected.
first_match_CheckedFirst(message) ==
    IF BlockCheckedLog_parse_event(message) # None
    THEN BlockCheckedLog_parse_event(message)
    ELSE IF BlockConnectedLog_parse_event(message) # None
    THEN BlockConnectedLog_parse_event(message)
    ELSE UnknownLogMessage_parse_event(message)

\* Mutant: no fallback when no matcher returns an event.
first_match_NoFallback(message) ==
    IF BlockConnectedLog_parse_event(message) # None
    THEN BlockConnectedLog_parse_event(message)
    ELSE BlockCheckedLog_parse_event(message)

\* The loop over the matchers of parse_log_event and its fallback: the
\* event of the first matcher that returns one, in the order of the vec.
first_match(message) ==
    IF BlockConnectedLog_parse_event(message) # None
    THEN BlockConnectedLog_parse_event(message)
    ELSE IF BlockCheckedLog_parse_event(message) # None
    THEN BlockCheckedLog_parse_event(message)
    ELSE UnknownLogMessage_parse_event(message)

parse_log_event(l) ==
    LET common == parse_common_log_data(l)
    IN  [ log_timestamp |-> common.timestamp_micro,
          category |-> common.category,
          threadname |-> common.threadname,
          log_event |-> first_match(common.message) ]

----------------------------------------------------------------------------
\* The lines the classifier is run on

\* Timestamps that parse, from 1970 on.
LaterTimestamps ==
    { "2025-10-02T02:31:14Z", "2025-10-17T23:52:01.358911Z",
      "2025-10-28T02:18:37Z", "2024-02-29T12:00:00.5Z",
      "1970-01-01T00:00:00.000001Z", "9999-12-31T23:59:59.999999Z" }

\* Timestamps that parse, before 1970.
EarlierTimestamps ==
    { "1969-12-31T23:59:59Z", "1969-12-31T23:59:59.5Z",
      "0000-01-01T00:00:00Z" }

\* Timestamps of the right shape that do not parse.
OutOfRangeTimestamps ==
    { "2025-99-99T99:99:99.358911Z", "2025-22-17T23:52:01.358911Z",
      "2023-02-29T12:00:00Z", "2025-10-17T24:00:00Z",
      "2025-10-00T23:52:01.12Z" }

\* What is not of the shape of a timestamp.
BrokenTimestamps ==
    { "", "2025--17T23:52:01.358911Z", "2025-10-17 23:52:01Z",
      "2025-10-17T23:52:01", "2025-10-17T23:52:01.1234567Z",
      "2025-10-17T23:52:01.Z", "x2025-10-02T02:31:14Z",
      "25-10-02T02:31:14Z" }

Timestamps ==
    LaterTimestamps \cup EarlierTimestamps \cup OutOfRangeTimestamps
      \cup BrokenTimestamps

\* What follows the timestamp.
Gaps == { " ", "\t", "  ", "" }

\* Bracket tokens, each with what follows it.
Metadatas ==
    { "", "[net] ", "[msghand] ", "[msghand] [net] ", "[net] [msghand] ",
      "[msghand] [net_processing.cpp:3452] [ProcessMessage] [net] ",
      "[scheduler] [validation.cpp:1] [VALIDATION]\t",
      "[http worker]  [Validation] ", "[This-Is-N0t-a-valid-category] ",
      "[a[b] [c] [d] ", "[net]\n[msghand] ", "[] ", "[net]" }

Hash1 == "41109f31c8ca4d8683ab5571ba462292ddb8486dee6ecd2e62901accc7952f0b"
Hash2 == "3909cd2a5ff36b9a40368609f92945e5b7111bca3cb4d04b72c39964aeb5d156"

\* Not block hashes: an upper-case digit, and one digit short.
NoHash1 == "41109F31c8ca4d8683ab5571ba462292ddb8486dee6ecd2e62901accc7952f0b"
NoHash2 == "3909cd2a5ff36b9a40368609f92945e5b7111bca3cb4d04b72c39964aeb5d15"

Connected(hash, height) == ConnectedLit \o hash \o HeightLit \o height

Checked(hash, state) == CheckedLit \o hash \o StateLit \o state

\* Messages about a connected block.
ConnectedMessages ==
    { Connected(Hash1, "437"), "Enqueuing " \o Connected(Hash2, "5"),
      Connected(Hash1, "0") \o " done", Connected(Hash2, "007"),
      Connected(Hash1, "4294967295"), Connected(Hash1, "4294967296"),
      Connected(Hash2, "99999999999999999999"),
      Connected(Hash1, "4294967296") \o "; " \o Connected(Hash2, "5"),
      Connected(Hash1, "12") \o "; " \o Connected(Hash2, "4294967296"),
      Connected(NoHash1, "5"), Connected(NoHash2, "5"),
      Connected(NoHash1, "5") \o " " \o Connected(Hash2, "6"),
      Connected(Hash1, ""), Connected(Hash1, "x"),
      "blockconnected: block hash=" \o Hash1 \o HeightLit \o "5" }

\* What ValidationState::ToString() gives, and what it does not.
States ==
    { "Valid", "", "bad-txnmrklroot", "bad-txns-duplicate",
      "bad-witness-nonce-size", "bad-witness-merkle-match",
      "unexpected-witness", "bad-txnmrklroo", "Bad-txnmrklroot",
      "unexpected-witnesses", "bad-blk-length" }

DebugMessages ==
    { "", ", hashMerkleRoot mismatch", ", duplicate transaction, again",
      ",\tnot a separator", ",no separator", ", ", "," }

\* Messages about a checked block.
CheckedMessages ==
    { Checked(Hash2, state) \o debug :
        state \in States, debug \in { "", ", hashMerkleRoot mismatch" } }
      \cup { Checked(Hash1, "bad-txns-duplicate") \o debug :
               debug \in DebugMessages }
      \cup { Checked(Hash1, "Valid") \o debug : debug \in DebugMessages }
      \cup { Checked(NoHash1, "Valid"), Checked(NoHash2, "Valid"),
             "Enqueuing " \o Checked(Hash1, "unexpected-witness"),
             Checked(NoHash1, "Valid") \o " " \o Checked(Hash2,
                                                         "bad-txnmrklroot") }

\* Messages that both matchers accept, in either order.
BothMessages ==
    { Connected(Hash1, "437") \o " " \o Checked(Hash2, "Valid"),
      Checked(Hash2, "bad-txnmrklroot") \o ", " \o Connected(Hash1, "5"),
      Checked(Hash2, "Valid") \o " " \o Connected(Hash1, "4294967296") }

\* Messages no matcher accepts.
OtherMessages ==
    { "Random message", "Verification progress: 50%", " ", "[net]",
      "[msghand] [net]", "received: pong (8 bytes) peer=0\n", "" }

Line(timestamp, gap, metadata, message) ==
    timestamp \o gap \o metadata \o message

\* Every timestamp, with and without metadata and a block pattern.
TimestampLines ==
    { Line(t, " ", m, x) :
        t \in Timestamps, m \in { "", "[msghand] [validation] " },
        x \in { "Random message", Connected(Hash1, "437") } }

\* Every gap and every metadata.
MetadataLines ==
    { Line(t, g, m, x) :
        t \in { "2025-10-17T23:52:01.358911Z", "2025-99-99T99:99:99.358911Z" },
        g \in Gaps, m \in Metadatas, x \in OtherMessages }

\* Every message.
MessageLines ==
    { Line("2025-09-27T01:52:01Z", " ", m, x) :
        m \in { "", "[validation] " },
        x \in ConnectedMessages \cup CheckedMessages \cup BothMessages }

Lines == TimestampLines \cup MetadataLines \cup MessageLines

----------------------------------------------------------------------------
\* The classifier as a machine: a line is handed to parse_log_event, and
\* is_mutated_block is asked about a BlockCheckedLog it returned.

LogInit ==
    /\ args = CHOOSE a \in ArgsSet : TRUE
    /\ pc = "auth"
    /\ auth = "none"
    /\ rpc_client = "none"
    /\ nats_client = FALSE
    /\ connects = [rpc |-> 0, nats |-> 0]
    /\ warned = 0
    /\ timerReady = FALSE
    /\ value = FALSE
    /\ changed = FALSE
    /\ closed = FALSE
    /\ slot = 0
    /\ calls = << >>
    /\ published = << >>
    /\ logged = << >>
    /\ prevFailed = FALSE
    /\ sig = "none"
    /\ bus = << >>
    /\ input \in Lines
    /\ log = NoLog
    /\ lpc = "input"
    /\ mutated = FALSE
    /\ response = None
    /\ clock = None
    /\ rpc_event = None
    /\ proto = None
    /\ qpc = "off"

ParseLogEvent ==
    /\ lpc = "input"
    /\ log' = parse_log_event(input)
    /\ lpc' = "parsed"
    /\ UNCHANGED << convvars, input, mutated, args, pc, auth, rpc_client, nats_client,
                    connects, warned, timerReady, value, changed, closed,
                    slot, calls, published, bus, logged, prevFailed, sig >>

IsMutatedBlock ==
    /\ lpc = "parsed"
    /\ log.log_event.kind = "BlockCheckedLog"
    /\ mutated' = is_mutated_block(log.log_event)
    /\ lpc' = "asked"
    /\ UNCHANGED << convvars, input, log, args, pc, auth, rpc_client, nats_client,
                    connects, warned, timerReady, value, changed, closed,
                    slot, calls, published, bus, logged, prevFailed, sig >>

LogNext == ParseLogEvent \/ IsMutatedBlock

LogSpec == LogInit /\ [][LogNext]_vars

\* The line has been parsed.
Parsed == lpc \in { "parsed", "asked" }

\* What LOG_LINE_REGEX captures of the line.
Caps == LOG_LINE_REGEX(input)

----------------------------------------------------------------------------
\* C12: parse_log_event returns for every line, and the Log it returns has
\* a log_event that is exactly one of UnknownLogMessage, BlockConnectedLog
\* and BlockCheckedLog.
C12_Variants ==
    [ UnknownLogMessage |-> { "kind", "raw_message" },
      BlockConnectedLog |-> { "kind", "block_hash", "block_height" },
      BlockCheckedLog |-> { "kind", "block_hash", "state", "debug_message" } ]

C12_AlwaysOneVariant ==
    /\ lpc = "input" =>
         parse_log_event(input).log_event.kind \in DOMAIN C12_Variants
    /\ Parsed =>
         /\ log.log_event.kind \in DOMAIN C12_Variants
         /\ DOMAIN log.log_event = C12_Variants[log.log_event.kind]

\* A line of no recognisable structure has been parsed.
C12_Witness ==
    /\ Parsed
    /\ input = "x2025-10-02T02:31:14Z [msghand] [validation] Random message"
    /\ log.log_event.kind = "UnknownLogMessage"

----------------------------------------------------------------------------
\* The structural shape, said without the order in which a regex engine
\* tries things: the text from position a up to position m - 1 is a
\* sequence of bracket tokens, each followed by whitespace.
RECURSIVE C13_Tokens(_, _, _)
C13_Tokens(s, a, m) ==
    \/ a = m
    \/ /\ a < m
       /\ At(s, a) = "["
       /\ \E j \in a + 2 .. m - 2 :
            /\ At(s, j) = "]"
            /\ \A k \in a + 1 .. j - 1 : At(s, k) # "]"
            /\ \E b \in j + 2 .. m :
                 /\ \A k \in j + 1 .. b - 1 : At(s, k) \in Space
                 /\ C13_Tokens(s, b, m)

\* The line is a timestamp-shaped prefix, whitespace, bracket tokens each
\* followed by whitespace, and a non-empty message.
C13_HasShape(s) ==
    /\ TimestampEnd(s) # 0
    /\ \E a \in TimestampEnd(s) + 2 .. Len(s) :
         /\ \A k \in TimestampEnd(s) + 1 .. a - 1 : At(s, k) \in Space
         /\ \E m \in a .. Len(s) :
              /\ C13_Tokens(s, a, m)
              /\ \A k \in m .. Len(s) : At(s, k) # "\n"

C13_Defaults ==
    [ log_timestamp |-> "0",
      category |-> "Unknown",
      threadname |-> "",
      log_event |-> [ kind |-> "UnknownLogMessage", raw_message |-> "" ] ]

\* C13: a line that does not have the structural shape is parsed to
\* log_timestamp 0, category Unknown, an empty threadname and an
\* UnknownLogMessage with an empty raw_message, whatever category token or
\* block pattern it contains.
C13_NoShapeGivesDefaults ==
    Parsed /\ ~C13_HasShape(input) => log = C13_Defaults

\* A line with a broken timestamp, a category token and a block pattern has
\* been parsed.
C13_Witness ==
    /\ Parsed
    /\ input = Line("2025--17T23:52:01.358911Z", " ",
                    "[msghand] [validation] ", Connected(Hash1, "437"))
    /\ ~C13_HasShape(input)

----------------------------------------------------------------------------
\* The calendar, said by tables: the days before each month of a common
\* year and the days of each month.
C14_DaysBefore == << 0, 31, 59, 90, 120, 151, 181, 212, 243, 273, 304, 334 >>

C14_MonthDays == << 31, 28, 31, 30, 31, 30, 31, 31, 30, 31, 30, 31 >>

C14_Leap(y) == (y % 4 = 0 /\ y % 100 # 0) \/ y % 400 = 0

\* The timestamp the line starts with.
C14_Timestamp == SubSeq(input, 1, TimestampEnd(input))

\* The timestamp names a day and a time of day that exist.
C14_Valid(ts) ==
    /\ Month(ts) \in 1 .. 12
    /\ Day(ts) >= 1
    /\ Day(ts) <= C14_MonthDays[Month(ts)]
                    + (IF Month(ts) = 2 /\ C14_Leap(Year(ts)) THEN 1 ELSE 0)
    /\ Hour(ts) < 24
    /\ Minute(ts) < 60
    /\ Second(ts) < 60

\* Days from 1970-01-01 to the day of ts, negative before it: the days from
\* 0000-01-01 to that day less the 719528 from 0000-01-01 to 1970-01-01.
C14_Days(ts) ==
    LET y == Year(ts)
    IN  365 * y + (y + 3) \div 4 - (y + 99) \div 100 + (y + 399) \div 400
          + C14_DaysBefore[Month(ts)]
          + (IF Month(ts) > 2 /\ C14_Leap(y) THEN 1 ELSE 0)
          + Day(ts) - 1 - 719528

\* The microseconds from the epoch to ts, as sign and magnitude.
C14_Micros(ts) ==
    LET inDay == BigAdd(
                   Shift(NatDigits(Hour(ts) * 3600 + Minute(ts) * 60
                                     + Second(ts)), 6),
                   Norm(ToDigits(PadRight(Fraction(ts), 6))))
        DayMicros(n) == Shift(BigMul(NatDigits(n), 86400), 6)
    IN  IF C14_Days(ts) >= 0
        THEN [ neg |-> FALSE, mag |-> BigAdd(DayMicros(C14_Days(ts)), inDay) ]
        ELSE [ neg |-> TRUE,
               mag |-> BigSub(DayMicros(0 - C14_Days(ts)), inDay) ]

\* C14: for a line of the structural shape whose timestamp is a valid
\* calendar timestamp, log_timestamp is the number of microseconds from the
\* Unix epoch to that timestamp, for every year of four digits.
C14_ExactMicroseconds ==
    Parsed /\ C13_HasShape(input) /\ C14_Valid(C14_Timestamp) =>
        [ neg |-> FALSE, mag |-> ToDigits(log.log_timestamp) ]
          = C14_Micros(C14_Timestamp)

\* The same for the timestamps from 1970 on: what the code does get right.
C14_ExactFrom1970 ==
    /\ Parsed
    /\ C13_HasShape(input)
    /\ C14_Valid(C14_Timestamp)
    /\ Year(C14_Timestamp) >= 1970
    => [ neg |-> FALSE, mag |-> ToDigits(log.log_timestamp) ]
         = C14_Micros(C14_Timestamp)

----------------------------------------------------------------------------
\* The line with its timestamp replaced by one that parses.
C15_WithValidTimestamp ==
    "2025-10-17T23:52:01.358911Z" \o From(input, TimestampEnd(input) + 1)

\* C15: for a line of the structural shape whose timestamp is not a valid
\* calendar timestamp, log_timestamp is 0 and category, threadname and
\* event are those of the same line with a valid timestamp.
C15_OnlyTimestampIsLost ==
    Parsed /\ C13_HasShape(input) /\ ~C14_Valid(C14_Timestamp) =>
        /\ log.log_timestamp = "0"
        /\ log.category = parse_log_event(C15_WithValidTimestamp).category
        /\ log.threadname = parse_log_event(C15_WithValidTimestamp).threadname
        /\ log.log_event = parse_log_event(C15_WithValidTimestamp).log_event

\* A line with month 99, a threadname, a category and a block pattern has
\* been parsed.
C15_Witness ==
    /\ Parsed
    /\ input = Line("2025-99-99T99:99:99.358911Z", " ",
                    "[msghand] [validation] ", Connected(Hash1, "437"))
    /\ log.log_timestamp = "0"
    /\ log.category = "Validation"
    /\ log.threadname = "msghand"
    /\ log.log_event.kind = "BlockConnectedLog"

----------------------------------------------------------------------------
\* The bracket tokens t1..tn of the line: those of its metadata.
C16_Tokens == captures_iter(Caps.metadata, 1)

\* The category a token names, whatever its case; "" when it names none.
C16_CategoryOf(token) ==
    IF \E name \in { "Net", "Validation" } :
           to_uppercase(token) = to_uppercase(name)
    THEN CHOOSE name \in { "Net", "Validation" } :
             to_uppercase(token) = to_uppercase(name)
    ELSE ""

\* The last token is consumed as the category.
C16_Consumed ==
    /\ C16_Tokens # << >>
    /\ C16_CategoryOf(C16_Tokens[Len(C16_Tokens)]) # ""

\* The tokens left after removing a consumed category token.
C16_Left ==
    IF C16_Consumed THEN SubSeq(C16_Tokens, 1, Len(C16_Tokens) - 1)
    ELSE C16_Tokens

\* Where the message starts in the line.
C16_MessageStart == Len(input) - Len(Caps.message) + 1

\* C16: for a line of the structural shape with bracket tokens t1..tn, the
\* category is tn when tn names a category in any case and Unknown
\* otherwise, the threadname is the first token left after removing a
\* consumed tn, or empty, and no token is in the message: the message
\* starts after the metadata that holds them all.
C16_LastIsCategoryFirstIsThread ==
    Parsed /\ C13_HasShape(input) =>
        /\ log.category =
             IF C16_Consumed THEN C16_CategoryOf(C16_Tokens[Len(C16_Tokens)])
             ELSE "Unknown"
        /\ log.threadname = IF C16_Left = << >> THEN "" ELSE C16_Left[1]
        /\ C16_MessageStart > TimestampEnd(input) + 1 + Len(Caps.metadata)
        /\ SubSeq(input, C16_MessageStart - Len(Caps.metadata),
                  C16_MessageStart - 1) = Caps.metadata
        /\ log.log_event.kind = "UnknownLogMessage" =>
             log.log_event.raw_message = From(input, C16_MessageStart)

\* A line with four tokens, the last a category, has been parsed: two
\* tokens are discarded.
C16_Witness ==
    /\ Parsed
    /\ input = Line("2025-10-17T23:52:01.358911Z", " ",
                    "[msghand] [net_processing.cpp:3452] [ProcessMessage] [net] ",
                    "Verification progress: 50%")
    /\ log.category = "Net"
    /\ log.threadname = "msghand"
    /\ Len(C16_Left) = Len(C16_Tokens) - 1

----------------------------------------------------------------------------
\* The message handed to the matchers.
C17_Message == parse_common_log_data(input).message

C17_ConnectedAccepts == BlockConnectedLog_parse_event(C17_Message) # None

C17_CheckedAccepts == BlockCheckedLog_parse_event(C17_Message) # None

\* C17: the event is that of BlockConnected when it matches, else that of
\* BlockChecked when it matches; a message both accept gives a
\* BlockConnectedLog; an UnknownLogMessage is given exactly when neither
\* matches, and it carries the whole message.
C17_FirstMatcherWins ==
    Parsed =>
        /\ C17_ConnectedAccepts =>
             log.log_event = BlockConnectedLog_parse_event(C17_Message)
        /\ ~C17_ConnectedAccepts /\ C17_CheckedAccepts =>
             log.log_event = BlockCheckedLog_parse_event(C17_Message)
        /\ log.log_event.kind = "UnknownLogMessage"
             <=> ~C17_ConnectedAccepts /\ ~C17_CheckedAccepts
        /\ log.log_event.kind = "UnknownLogMessage" =>
             log.log_event.raw_message = C17_Message

\* A message both matchers accept, the BlockChecked pattern coming first in
\* the text, has been parsed to a BlockConnectedLog.
C17_Witness ==
    /\ Parsed
    /\ C17_Message = Checked(Hash2, "bad-txnmrklroot") \o ", "
                       \o Connected(Hash1, "5")
    /\ C17_ConnectedAccepts
    /\ C17_CheckedAccepts
    /\ log.log_event.kind = "BlockConnectedLog"

----------------------------------------------------------------------------
\* The positions of msg at which the BlockConnected pattern occurs.
C18_Occurrences(msg) ==
    { i \in 1 .. Len(msg) : BlockConnectedAt(msg, i) }

\* The hash of the occurrence at position i.
C18_Hash(msg, i) ==
    SubSeq(msg, i + Len(ConnectedLit), i + Len(ConnectedLit) + HashLen - 1)

\* The height of the occurrence at position i: all the digits there are.
C18_Height(msg, i) ==
    LET h == i + Len(ConnectedLit) + HashLen + Len(HeightLit)
    IN  SubSeq(msg, h, h + RunLen(msg, h, Digit, FALSE) - 1)

\* The height is at most 4294967295.
C18_Fits(height) ==
    ~BigLess(ToDigits("4294967295"), Norm(ToDigits(height)))

\* The event reports the hash and the height of the occurrence at i.
C18_Reports(msg, i) ==
    /\ log.log_event.kind = "BlockConnectedLog"
    /\ log.log_event.block_hash = C18_Hash(msg, i)
    /\ ToDigits(log.log_event.block_height)
         = Norm(ToDigits(C18_Height(msg, i)))

\* C18: the BlockConnected matcher returns an event exactly when the
\* message contains, at any position, the pattern with a height that fits
\* a u32, and the event reports that hash and height.
C18_AnyOccurrence ==
    Parsed =>
        LET msg == C17_Message
            fitting == { i \in C18_Occurrences(msg) :
                           C18_Fits(C18_Height(msg, i)) }
        IN  /\ log.log_event.kind = "BlockConnectedLog" <=> fitting # {}
            /\ log.log_event.kind = "BlockConnectedLog" =>
                 \E i \in fitting : C18_Reports(msg, i)

\* C18, amended: the matcher looks at the leftmost occurrence only.  It
\* returns an event exactly when the pattern occurs and the height of its
\* leftmost occurrence fits a u32, and reports the hash and height of that
\* occurrence; otherwise the later matchers decide.
C18_LeftmostOccurrence ==
    Parsed =>
        LET msg == C17_Message
            found == C18_Occurrences(msg)
        IN  IF found # {} /\ C18_Fits(C18_Height(msg, Min(found)))
            THEN C18_Reports(msg, Min(found))
            ELSE log.log_event =
                   IF BlockCheckedLog_parse_event(msg) # None
                   THEN BlockCheckedLog_parse_event(msg)
                   ELSE UnknownLogMessage_parse_event(msg)

\* A message whose leftmost occurrence has a height that does not fit and
\* whose second occurrence has one that does has been parsed: no
\* BlockConnectedLog.
C18_Witness ==
    /\ Parsed
    /\ C17_Message = Connected(Hash1, "4294967296") \o "; "
                       \o Connected(Hash2, "5")
    /\ log.log_event.kind = "UnknownLogMessage"

----------------------------------------------------------------------------
\* The <rest> of msg: what follows state= in the leftmost occurrence of the
\* BlockChecked pattern.
C19_Rest(msg) ==
    LET found == { i \in 1 .. Len(msg) :
                     BlockPrefixAt(msg, i, CheckedLit, StateLit) # 0 }
    IN  From(msg, BlockPrefixAt(msg, Min(found), CheckedLit, StateLit))

\* C19: for a message matching the BlockChecked pattern, state is what
\* <rest> has before its first ", " (all of it when there is none) and
\* debug_message is what it has after that separator (nothing when there
\* is none).
C19_SplitAtCommaSpace ==
    Parsed /\ log.log_event.kind = "BlockCheckedLog" =>
        LET rest == C19_Rest(C17_Message)
            sep == Find(rest, 1, ", ")
        IN  /\ log.log_event.state =
                 IF sep = 0 THEN rest ELSE SubSeq(rest, 1, sep - 1)
            /\ log.log_event.debug_message =
                 IF sep = 0 THEN "" ELSE From(rest, sep + 2)

\* The same with the separator the pattern has: a comma followed by any
\* whitespace character.
C19_SplitAtCommaWhitespace ==
    Parsed /\ log.log_event.kind = "BlockCheckedLog" =>
        LET rest == C19_Rest(C17_Message)
            seps == { i \in 1 .. Len(rest) - 1 :
                        At(rest, i) = "," /\ At(rest, i + 1) \in Space }
        IN  /\ log.log_event.state =
                 IF seps = {} THEN rest ELSE SubSeq(rest, 1, Min(seps) - 1)
            /\ log.log_event.debug_message =
                 IF seps = {} THEN "" ELSE From(rest, Min(seps) + 2)

----------------------------------------------------------------------------
\* C20: is_mutated_block returns true exactly when state is one of
\* bad-txnmrklroot, bad-txns-duplicate, bad-witness-nonce-size,
\* bad-witness-merkle-match and unexpected-witness, whatever block_hash
\* and debug_message are.
C20_MutatedIffListedState ==
    lpc = "asked" =>
        mutated =
          \/ log.log_event.state = "bad-txnmrklroot"
          \/ log.log_event.state = "bad-txns-duplicate"
          \/ log.log_event.state = "bad-witness-nonce-size"
          \/ log.log_event.state = "bad-witness-merkle-match"
          \/ log.log_event.state = "unexpected-witness"

\* is_mutated_block has returned true for an unexpected-witness block with
\* a debug message.
C20_Witness ==
    /\ lpc = "asked"
    /\ mutated
    /\ log.log_event.state = "unexpected-witness"
    /\ log.log_event.debug_message = "hashMerkleRoot mismatch"


----------------------------------------------------------------------------
\* Converting RPC responses (protobuf/rpc_extractor.rs)

\* Option::Some(v); Option::None is None.
Some(v) == [ kind |-> "Some", v |-> v ]

\* Option::unwrap_or_default, d being Default::default() of the type.
unwrap_or_default(o, d) == IF o.kind = "Some" THEN o.v ELSE d

\* An integer of the response: a sign and the decimal digits of the
\* magnitude, least significant first.
I64(neg, str) == [ neg |-> neg, mag |-> ToDigits(str) ]

RECURSIVE Rem(_, _, _)
Rem(a, n, r) ==
    IF a = << >> THEN r
    ELSE Rem(SubSeq(a, 1, Len(a) - 1), n, (r * 10 + a[Len(a)]) % n)

TwoPow31 == ToDigits("2147483648")

TwoPow32 == ToDigits("4294967296")

\* a mod 2^32, from the two 16-bit halves.
Low32(a) ==
    LET lo == Rem(a, 65536, 0)
        hi == Rem(BigDiv(a, 65536), 65536, 0)
    IN  BigAdd(BigMul(NatDigits(hi), 65536), NatDigits(lo))

\* x as u32: the low 32 bits, a negative value in two's complement.
as_u32(x) ==
    LET m == Low32(x.mag)
    IN  IF x.neg /\ m # << 0 >> THEN BigSub(TwoPow32, m) ELSE m

\* x as i32: the low 32 bits read as a signed value.
as_i32(x) ==
    LET u == as_u32(x)
    IN  IF BigLess(u, TwoPow31) THEN [ neg |-> FALSE, mag |-> u ]
        ELSE [ neg |-> TRUE, mag |-> BigSub(TwoPow32, u) ]

\* Vec<String>::join
RECURSIVE join(_, _)
join(v, sep) ==
    IF v = << >> THEN ""
    ELSE IF Len(v) = 1 THEN v[1]
    ELSE v[1] \o sep \o join(Tail(v), sep)

\* From<RPCPeerInfo> for PeerInfo: every optional field of the response falls
\* back to the default of its type.
PeerInfo_from(info) ==
    [ address |-> info.address,
      address_bind |-> unwrap_or_default(info.address_bind, ""),
      address_local |-> unwrap_or_default(info.address_local, ""),
      addr_rate_limited |->
          as_u64(unwrap_or_default(info.addresses_rate_limited, I64(FALSE, "0"))),
      addr_relay_enabled |->
          unwrap_or_default(info.addresses_relay_enabled, FALSE),
      addr_processed |->
          as_u64(unwrap_or_default(info.addresses_processed, I64(FALSE, "0"))),
      bip152_hb_from |-> info.bip152_hb_from,
      bip152_hb_to |-> info.bip152_hb_to,
      bytes_received |-> info.bytes_received,
      bytes_received_per_message |-> info.bytes_received_per_message,
      bytes_sent |-> info.bytes_sent,
      bytes_sent_per_message |-> info.bytes_sent_per_message,
      connection_time |-> info.connection_time,
      connection_type |-> unwrap_or_default(info.connection_type, ""),
      id |-> info.id,
      inbound |-> info.inbound,
      inflight |-> unwrap_or_default(info.inflight, << >>),
      last_block |-> info.last_block,
      last_received |-> info.last_received,
      last_send |-> info.last_send,
      last_transaction |-> info.last_transaction,
      mapped_as |-> unwrap_or_default(info.mapped_as, 0),
      minfeefilter |-> info.minimum_fee_filter,
      minimum_ping |-> unwrap_or_default(info.minimum_ping, "0.0"),
      network |-> info.network,
      ping_time |-> unwrap_or_default(info.ping_time, "0.0"),
      ping_wait |-> unwrap_or_default(info.ping_wait, "0.0"),
      permissions |-> info.permissions,
      relay_transactions |-> info.relay_transactions,
      services |-> info.services,
      starting_height |-> unwrap_or_default(info.starting_height, 0),
      subversion |-> info.subversion,
      synced_blocks |-> unwrap_or_default(info.synced_blocks, 0),
      synced_headers |-> unwrap_or_default(info.synced_headers, 0),
      time_offset |-> info.time_offset,
      transport_protocol_type |-> info.transport_protocol_type,
      version |-> info.version,
      inv_to_send |-> as_u64(unwrap_or_default(info.inv_to_send, I64(FALSE, "0"))),
      cpu_load |-> unwrap_or_default(info.cpu_load, "0.0") ]

\* From<RPCGetPeerInfo> for PeerInfos
PeerInfos_from(infos) ==
    [ kind |-> "PeerInfos",
      infos |-> [ i \in 1 .. Len(infos) |-> PeerInfo_from(infos[i]) ] ]

\* From<GetMempoolInfo> for MempoolInfo
MempoolInfo_from(info) ==
    [ kind |-> "MempoolInfo",
      bytes |-> info.bytes,
      fullrbf |-> info.full_rbf,
      incrementalrelayfee |-> info.incremental_relay_fee,
      loaded |-> info.loaded,
      max_mempool |-> info.max_mempool,
      mempoolminfee |-> info.mempool_min_fee,
      minrelaytxfee |-> info.min_relay_tx_fee,
      size |-> info.size,
      total_fee |-> info.total_fee,
      usage |-> info.usage,
      unbroadcastcount |-> info.unbroadcast_count ]

\* From<RPCUploadTarget> for UploadTarget
UploadTarget_from(target) ==
    [ timeframe |-> target.timeframe,
      target |-> target.target,
      target_reached |-> target.target_reached,
      serve_historical_blocks |-> target.serve_historical_blocks,
      bytes_left_in_cycle |-> target.bytes_left_in_cycle,
      time_left_in_cycle |-> target.time_left_in_cycle ]

\* From<RPCGetNetTotals> for NetTotals
NetTotals_from(totals) ==
    [ kind |-> "NetTotals",
      total_bytes_received |-> totals.total_bytes_received,
      total_bytes_sent |-> totals.total_bytes_sent,
      time_millis |-> totals.time_millis,
      upload_target |-> UploadTarget_from(totals.upload_target) ]

\* The MemoryInfo of one entry of the getmemoryinfo map.
MemoryInfoOf(locked) ==
    [ kind |-> "MemoryInfo",
      used |-> locked.used,
      free |-> locked.free,
      total |-> locked.total,
      locked |-> locked.locked,
      chunks_used |-> locked.chunks_used,
      chunks_free |-> locked.chunks_free ]

\* Locked::default()
DefaultLocked ==
    [ used |-> 0, free |-> 0, total |-> 0, locked |-> 0,
      chunks_used |-> 0, chunks_free |-> 0 ]

\* From<RPCGetMemoryInfoStats> for MemoryInfo, had the lookup of "locked"
\* ended in unwrap_or_default instead of expect.
MemoryInfo_from_Defaults(stats) ==
    IF "locked" \in DOMAIN stats THEN MemoryInfoOf(stats["locked"])
    ELSE MemoryInfoOf(DefaultLocked)

\* From<RPCGetMemoryInfoStats> for MemoryInfo: stats is a map keyed by
\* strings, and the lookup of "locked" is taken with expect.
MemoryInfo_from(stats) ==
    IF "locked" \in DOMAIN stats THEN MemoryInfoOf(stats["locked"])
    ELSE [ kind |-> "Panic",
           message |-> "getmemoryinfo response should contain 'locked' key" ]

\* From<RPCGetNetworkInfoNetwork> for NetworkInfoNetwork
NetworkInfoNetwork_from(network) ==
    [ name |-> network.name,
      limited |-> network.limited,
      reachable |-> network.reachable,
      proxy |-> network.proxy,
      proxy_randomize_credentials |-> network.proxy_randomize_credentials ]

\* From<RPCGetNetworkInfoAddress> for NetworkInfoLocalAddress
NetworkInfoLocalAddress_from(address) ==
    [ address |-> address.address,
      port |-> as_u32(address.port),
      score |-> as_u32(address.score) ]

\* From<RPCGetNetworkInfo> for NetworkInfo
NetworkInfo_from(info) ==
    [ kind |-> "NetworkInfo",
      version |-> as_u32(info.version),
      subversion |-> info.subversion,
      protocol_version |-> as_u32(info.protocol_version),
      local_services |-> info.local_services,
      local_services_names |-> info.local_services_names,
      local_relay |-> info.local_relay,
      time_offset |-> as_i32(info.time_offset),
      connections |-> as_u32(info.connections),
      connections_in |-> as_u32(info.connections_in),
      connections_out |-> as_u32(info.connections_out),
      network_active |-> info.network_active,
      networks |->
          [ i \in 1 .. Len(info.networks) |->
              NetworkInfoNetwork_from(info.networks[i]) ],
      relay_fee |-> info.relay_fee,
      incremental_fee |-> info.incremental_fee,
      local_addresses |->
          [ i \in 1 .. Len(info.local_addresses) |->
              NetworkInfoLocalAddress_from(info.local_addresses[i]) ],
      warnings |-> join(info.warnings, "; ") ]

\* From<RPCAddrManInfoNetwork> for AddrManInfoNetwork
AddrManInfoNetwork_from(network) ==
    [ new |-> network.new, tried |-> network.tried, total |-> network.total ]

\* From<RPCGetAddrManInfo> for AddrManInfo: the same keys, each value
\* converted.
AddrManInfo_from(info) ==
    [ kind |-> "AddrmanInfo",
      networks |-> [ k \in DOMAIN info |-> AddrManInfoNetwork_from(info[k]) ] ]

\* From<RPCGetBlockchainInfo> for BlockchainInfo
BlockchainInfo_from(info) ==
    [ kind |-> "BlockchainInfo",
      chain |-> info.chain,
      blocks |-> as_u32(info.blocks),
      headers |-> as_u32(info.headers),
      bestblockhash |-> info.best_block_hash,
      difficulty |-> info.difficulty,
      time |-> as_u64(info.time),
      mediantime |-> as_u64(info.median_time),
      verificationprogress |-> info.verification_progress,
      initialblockdownload |-> info.initial_block_download,
      chainwork |-> info.chain_work,
      size_on_disk |-> info.size_on_disk,
      pruned |-> info.pruned,
      pruneheight |->
          IF info.prune_height.kind = "Some"
          THEN Some(as_u32(info.prune_height.v)) ELSE None,
      prune_target_size |->
          IF info.prune_target_size.kind = "Some"
          THEN Some(as_u64(info.prune_target_size.v)) ELSE None,
      warnings |-> join(info.warnings, "; ") ]

\* The conversion of chain tx stats: total, the fields copied.
ChainTxStats_from(stats) == [ kind |-> "ChainTxStats", stats |-> stats ]

\* response.into(), by the type of the response; the uptime scalar goes into
\* RpcEvent::Uptime as the client returned it.
into(r) ==
    CASE r.method = "getpeerinfo" -> PeerInfos_from(r.result)
      [] r.method = "getmempoolinfo" -> MempoolInfo_from(r.result)
      [] r.method = "uptime" -> [ kind |-> "Uptime", uptime |-> r.result ]
      [] r.method = "getnettotals" -> NetTotals_from(r.result)
      [] r.method = "getmemoryinfo" -> MemoryInfo_from(r.result)
      [] r.method = "getaddrmaninfo" -> AddrManInfo_from(r.result)
      [] r.method = "getchaintxstats" -> ChainTxStats_from(r.result)
      [] r.method = "getnetworkinfo" -> NetworkInfo_from(r.result)
      [] r.method = "getblockchaininfo" -> BlockchainInfo_from(r.result)

----------------------------------------------------------------------------
\* The envelope (protobuf/event.rs, protobuf/event_msg.rs)

\* A clock reading is its distance from the epoch, before or after it: whole
\* seconds in decimal and the nanoseconds of the last second.

\* duration_since without the ?, an earlier reading taken as the epoch.
duration_since_Clamped(now) ==
    IF now.before
    THEN [ kind |-> "Ok", secs |-> << 0 >>, nanos |-> 0 ]
    ELSE [ kind |-> "Ok", secs |-> ToDigits(now.secs), nanos |-> now.nanos ]

\* SystemTime::duration_since(UNIX_EPOCH): the Duration since the epoch, an
\* Err when the reading is earlier than the epoch by any amount.
duration_since(now) ==
    IF now.before /\ (ToDigits(now.secs) # << 0 >> \/ now.nanos # 0)
    THEN [ kind |-> "Err", error |-> "SystemTimeError" ]
    ELSE [ kind |-> "Ok", secs |-> ToDigits(now.secs), nanos |-> now.nanos ]

\* Duration::as_millis: secs * 1000 + nanos / 1_000_000, a u128.
as_millis(d) ==
    BigAdd(BigMul(d.secs, 1000), NatDigits(d.nanos \div 1000000))

\* now.as_millis() as u64, in decimal.
timestamp_of(d) == ToDecimal(as_u64([ neg |-> FALSE, mag |-> as_millis(d) ]))

\* Event::new(event), the clock reading now.
Event_new(event, now) ==
    LET d == duration_since(now)
    IN  IF d.kind = "Err" THEN d
        ELSE [ kind |-> "Ok",
               timestamp |-> timestamp_of(d),
               peer_observer_event |-> Some(event) ]

\* EventMsg::new(event), the clock reading now.
EventMsg_new(event, now) ==
    LET d == duration_since(now)
    IN  IF d.kind = "Err" THEN d
        ELSE [ kind |-> "Ok",
               timestamp |-> timestamp_of(d),
               event |-> Some(event) ]

\* PeerObserverEvent::RpcExtractor(Rpc { rpc_event: Some(e) })
RpcExtractor(e) == [ kind |-> "RpcExtractor", rpc_event |-> Some(e) ]

----------------------------------------------------------------------------
\* Responses and clock readings

\* A peer as a current node reports it: every optional field present.
PeerFull ==
    [ address |-> "127.0.0.1:8333",
      address_bind |-> Some("127.0.0.1:39024"),
      address_local |-> Some("203.0.113.7:8333"),
      addresses_rate_limited |-> Some(I64(FALSE, "7")),
      addresses_relay_enabled |-> Some(TRUE),
      addresses_processed |-> Some(I64(FALSE, "1000")),
      bip152_hb_from |-> FALSE,
      bip152_hb_to |-> TRUE,
      bytes_received |-> 2048,
      bytes_received_per_message |-> [ m \in {"ping", "inv"} |-> 32 ],
      bytes_sent |-> 1024,
      bytes_sent_per_message |-> [ m \in {"pong"} |-> 32 ],
      connection_time |-> 1700000000,
      connection_type |-> Some("outbound-full-relay"),
      id |-> 3,
      inbound |-> FALSE,
      inflight |-> Some(<< 840000 >>),
      last_block |-> 1700000100,
      last_received |-> 1700000200,
      last_send |-> 1700000300,
      last_transaction |-> 1700000400,
      mapped_as |-> Some(64496),
      minimum_fee_filter |-> "0.00001",
      minimum_ping |-> Some("0.02"),
      network |-> "ipv4",
      ping_time |-> Some("0.05"),
      ping_wait |-> Some("1.5"),
      permissions |-> << "noban" >>,
      relay_transactions |-> TRUE,
      services |-> "0000000000000409",
      starting_height |-> Some(839999),
      subversion |-> "/Satoshi:29.0.0/",
      synced_blocks |-> Some(840000),
      synced_headers |-> Some(840001),
      time_offset |-> 0,
      transport_protocol_type |-> "v2",
      version |-> 70016,
      inv_to_send |-> Some(I64(FALSE, "12")),
      cpu_load |-> Some("0.25") ]

\* The same peer as an older node reports it: every optional field absent.
PeerBare ==
    [ PeerFull EXCEPT
        !.address_bind = None, !.address_local = None,
        !.addresses_rate_limited = None, !.addresses_relay_enabled = None,
        !.addresses_processed = None, !.connection_type = None,
        !.inflight = None, !.mapped_as = None, !.minimum_ping = None,
        !.ping_time = None, !.ping_wait = None, !.starting_height = None,
        !.synced_blocks = None, !.synced_headers = None,
        !.inv_to_send = None, !.cpu_load = None ]

\* The results the RPC client can return, by method.
Results ==
    [ getpeerinfo |->
        LET PeerConnecting ==
                [ PeerFull EXCEPT
                    !.id = 4, !.inbound = TRUE, !.ping_time = None,
                    !.minimum_ping = None, !.synced_blocks = None,
                    !.synced_headers = None, !.mapped_as = None ]
        IN  { << >>, << PeerFull >>, << PeerBare >>, << PeerConnecting >>,
              << PeerFull, PeerBare >>,
              << PeerBare, PeerConnecting, PeerFull >> },
      getmempoolinfo |->
        { [ bytes |-> b, full_rbf |-> TRUE,
            incremental_relay_fee |-> "0.00001", loaded |-> l,
            max_mempool |-> 300000000, mempool_min_fee |-> "0.00001",
            min_relay_tx_fee |-> "0.00001",
            size |-> IF b = 0 THEN 0 ELSE 12, total_fee |-> "0.0005",
            usage |-> b * 4, unbroadcast_count |-> 0 ] :
          b \in {0, 4096}, l \in BOOLEAN },
      uptime |-> {0, 1, 86400},
      getnettotals |->
        { [ total_bytes_received |-> 2048, total_bytes_sent |-> 1024,
            time_millis |-> 1700000000,
            upload_target |->
                [ timeframe |-> 86400, target |-> t, target_reached |-> r,
                  serve_historical_blocks |-> ~r,
                  bytes_left_in_cycle |-> IF r THEN 0 ELSE t,
                  time_left_in_cycle |-> 3600 ] ] :
          t \in {0, 1000000}, r \in BOOLEAN },
      \* Maps with the key "locked", with another key next to it, with
      \* other keys only, and the empty map; an entry holds the numbers of
      \* a running node or zeros.
      getmemoryinfo |->
        UNION { [ keys ->
                    { [ used |-> 1024, free |-> 64512, total |-> 65536,
                        locked |-> 65536, chunks_used |-> 16,
                        chunks_free |-> 2 ],
                      DefaultLocked } ] :
                keys \in { {"locked"}, {"locked", "mallocinfo"},
                           {"mallocinfo"}, {"Locked"}, {} } },
      getaddrmaninfo |->
        { [ k \in keys |-> [ new |-> 10, tried |-> 5, total |-> 15 ] ] :
          keys \in { {}, {"ipv4"}, {"ipv4", "onion", "all_networks"} } },
      getchaintxstats |->
        { [ time |-> 1700000000, tx_count |-> n,
            window_block_count |-> 4320 ] : n \in {0, 1000000} },
      \* One counter wider than 32 bits and one negative.
      getnetworkinfo |->
        { [ version |-> I64(FALSE, v), subversion |-> "/Satoshi:29.0.0/",
            protocol_version |-> I64(FALSE, "70016"),
            local_services |-> "0000000000000409",
            local_services_names |-> << "NETWORK", "WITNESS" >>,
            local_relay |-> TRUE, time_offset |-> I64(o, "3600"),
            connections |-> I64(FALSE, "10"),
            connections_in |-> I64(FALSE, "2"),
            connections_out |-> I64(FALSE, "8"), network_active |-> TRUE,
            networks |->
                << [ name |-> "ipv4", limited |-> FALSE, reachable |-> TRUE,
                     proxy |-> "", proxy_randomize_credentials |-> FALSE ] >>,
            relay_fee |-> "0.00001", incremental_fee |-> "0.00001",
            local_addresses |->
                << [ address |-> "203.0.113.7", port |-> I64(FALSE, "8333"),
                     score |-> I64(FALSE, "1") ] >>,
            warnings |-> w ] :
          v \in {"290000", "4295257296"}, o \in BOOLEAN,
          w \in { << >>, << "pre-release build", "clock skew" >> } },
      getblockchaininfo |->
        { [ chain |-> "main", blocks |-> I64(FALSE, "840000"),
            headers |-> I64(FALSE, "840001"),
            best_block_hash |-> "00000000000000000001",
            difficulty |-> "86000000000000", time |-> I64(t, "1700000000"),
            median_time |-> I64(FALSE, "1699996400"),
            verification_progress |-> "0.9999",
            initial_block_download |-> FALSE, chain_work |-> "00ff",
            size_on_disk |-> 600, pruned |-> pr.kind = "Some",
            prune_height |-> pr,
            prune_target_size |->
                IF pr.kind = "Some" THEN Some(I64(FALSE, "576716800"))
                ELSE None,
            warnings |-> << "one" >> ] :
          t \in BOOLEAN, pr \in { None, Some(I64(FALSE, "830000")) } } ]

\* What the RPC client can hand to a conversion.
Responses ==
    UNION { { [ method |-> m, result |-> b ] : b \in Results[m] } :
            m \in DOMAIN Results }

\* Clock readings.  At or after the epoch: the epoch itself, its first
\* second, two present-day seconds and the last second the kernel's 64-bit
\* nanosecond clock can show, with nanoseconds on both sides of a
\* millisecond boundary.  Before the epoch: by a nanosecond, by under a
\* millisecond, by half a second, by a second, by a day.
Clocks ==
    { [ before |-> FALSE, secs |-> sec, nanos |-> n ] :
        sec \in { "0", "1", "1700000000", "4102444800", "9223372036" },
        n \in { 0, 1, 999999, 1000000, 123456789, 854775807 } }
    \cup { [ before |-> TRUE, secs |-> d[1], nanos |-> d[2] ] :
             d \in { << "0", 1 >>, << "0", 999999 >>, << "0", 500000000 >>,
                     << "1", 0 >>, << "86400", 0 >>,
                     << "86400", 123456789 >> } }

----------------------------------------------------------------------------
\* From a fetched response to an envelope

\* A query function after its fetch returned a response, the run loop and
\* the log parser at rest.
EnvelopeInit ==
    /\ args = CHOOSE a \in ArgsSet : TRUE
    /\ pc = "auth"
    /\ auth = "none"
    /\ rpc_client = "none"
    /\ nats_client = FALSE
    /\ connects = [rpc |-> 0, nats |-> 0]
    /\ warned = 0
    /\ timerReady = FALSE
    /\ value = FALSE
    /\ changed = FALSE
    /\ closed = FALSE
    /\ slot = 0
    /\ calls = << >>
    /\ published = << >>
    /\ logged = << >>
    /\ prevFailed = FALSE
    /\ sig = "none"
    /\ bus = << >>
    /\ input = ""
    /\ log = NoLog
    /\ lpc = "off"
    /\ mutated = FALSE
    /\ response \in Responses
    /\ clock \in Clocks
    /\ rpc_event = None
    /\ proto = None
    /\ qpc = "fetched"

\* response.into(), the argument of Event::new: evaluated first, and a panic
\* of the conversion unwinds out of the query function.
Into ==
    /\ qpc = "fetched"
    /\ LET e == into(response)
       IN  IF e.kind = "Panic"
           THEN /\ qpc' = "panicked"
                /\ rpc_event' = None
           ELSE /\ qpc' = "converted"
                /\ rpc_event' = e
    /\ UNCHANGED << response, clock, proto, logvars, args, pc, auth,
                    rpc_client, nats_client, connects, warned, timerReady,
                    value, changed, closed, slot, calls, published, bus,
                    logged, prevFailed, sig >>

\* Event::new(PeerObserverEvent::RpcExtractor(..))?: the envelope, or the
\* SystemTimeError returned to the caller.
EventNew ==
    /\ qpc = "converted"
    /\ proto' = Event_new(RpcExtractor(rpc_event), clock)
    /\ qpc' = IF proto'.kind = "Err" THEN "returned_err" ELSE "wrapped"
    /\ UNCHANGED << response, clock, rpc_event, logvars, args, pc, auth,
                    rpc_client, nats_client, connects, warned, timerReady,
                    value, changed, closed, slot, calls, published, bus,
                    logged, prevFailed, sig >>

\* EventMsg::new(..) on the same payload and clock.
EventMsgNew ==
    /\ qpc = "converted"
    /\ proto' = EventMsg_new(RpcExtractor(rpc_event), clock)
    /\ qpc' = IF proto'.kind = "Err" THEN "returned_err" ELSE "wrapped_msg"
    /\ UNCHANGED << response, clock, rpc_event, logvars, args, pc, auth,
                    rpc_client, nats_client, connects, warned, timerReady,
                    value, changed, closed, slot, calls, published, bus,
                    logged, prevFailed, sig >>

EnvelopeNext == Into \/ EventNew \/ EventMsgNew

EnvelopeSpec == EnvelopeInit /\ [][EnvelopeNext]_vars

----------------------------------------------------------------------------
\* Claims about conversions and the envelope

\* The response is a getmemoryinfo map without the key "locked".
C21_LockedMissing ==
    /\ response.method = "getmemoryinfo"
    /\ "locked" \notin DOMAIN response.result

\* The variant each response type converts to.
C21_VariantOf ==
    [ getpeerinfo |-> "PeerInfos", getmempoolinfo |-> "MempoolInfo",
      uptime |-> "Uptime", getnettotals |-> "NetTotals",
      getmemoryinfo |-> "MemoryInfo", getaddrmaninfo |-> "AddrmanInfo",
      getchaintxstats |-> "ChainTxStats", getnetworkinfo |-> "NetworkInfo",
      getblockchaininfo |-> "BlockchainInfo" ]

\* C21: once the conversion of a response has run, it has panicked exactly
\* when the response is a getmemoryinfo map without the key "locked"; then
\* no MemoryInfo exists (in particular none holding default values) and no
\* envelope is built.  Every other response, of every type, is converted to
\* the variant of its type, a peer's absent optional fields to the defaults
\* of their types, and a MemoryInfo that exists holds the numbers of the
\* "locked" entry.
C21_OnlyMissingLockedPanics ==
    qpc # "fetched" =>
        /\ (qpc = "panicked") <=> C21_LockedMissing
        /\ C21_LockedMissing => rpc_event = None /\ proto = None
        /\ ~C21_LockedMissing =>
              rpc_event.kind = C21_VariantOf[response.method]
        /\ rpc_event.kind = "MemoryInfo" =>
              LET locked == response.result["locked"]
              IN  /\ rpc_event.used = locked.used
                  /\ rpc_event.free = locked.free
                  /\ rpc_event.total = locked.total
                  /\ rpc_event.locked = locked.locked
                  /\ rpc_event.chunks_used = locked.chunks_used
                  /\ rpc_event.chunks_free = locked.chunks_free
        /\ rpc_event.kind = "PeerInfos" =>
              /\ Len(rpc_event.infos) = Len(response.result)
              /\ \A i \in 1 .. Len(response.result) :
                    LET info == response.result[i]
                        peer == rpc_event.infos[i]
                    IN  /\ info.connection_type = None =>
                              peer.connection_type = ""
                        /\ info.mapped_as = None => peer.mapped_as = 0
                        /\ info.ping_time = None => peer.ping_time = "0.0"
                        /\ info.inv_to_send = None =>
                              peer.inv_to_send = << 0 >>
                        /\ info.addresses_relay_enabled = None =>
                              ~peer.addr_relay_enabled

\* A getmemoryinfo map that holds an entry, but under another key, has made
\* the conversion panic.
C21_Witness ==
    /\ qpc = "panicked"
    /\ response.method = "getmemoryinfo"
    /\ DOMAIN response.result = {"mallocinfo"}
    /\ rpc_event = None

\* The clock reading is earlier than the epoch.
C22_BeforeEpoch ==
    clock.before /\ (clock.secs # "0" \/ clock.nanos # 0)

\* The nanoseconds from the epoch to a reading at or after it.
C22_Nanos == BigAdd(Shift(ToDigits(clock.secs), 9), NatDigits(clock.nanos))

\* t is the number of whole milliseconds in C22_Nanos:
\* t * 10^6 <= C22_Nanos < (t + 1) * 10^6.
C22_WholeMillis(t) ==
    /\ ~BigLess(C22_Nanos, BigMul(t, 1000000))
    /\ BigLess(C22_Nanos, BigMul(BigAdd(t, << 1 >>), 1000000))

\* C22: once Event::new (or EventMsg::new) has returned, it has failed
\* exactly when the clock reading is before the epoch, by however little, and
\* then it returned the error and nothing else; otherwise it returned an
\* envelope whose timestamp is the whole milliseconds from the epoch to the
\* reading and whose payload is the converted event it was given.
C22_FailsOnlyBeforeEpoch ==
    qpc \in {"returned_err", "wrapped", "wrapped_msg"} =>
        /\ (qpc = "returned_err") <=> C22_BeforeEpoch
        /\ C22_BeforeEpoch =>
              proto = [ kind |-> "Err", error |-> "SystemTimeError" ]
        /\ ~C22_BeforeEpoch =>
              /\ proto.kind = "Ok"
              /\ C22_WholeMillis(ToDigits(proto.timestamp))
              /\ rpc_event = into(response)
              /\ qpc = "wrapped" =>
                    /\ DOMAIN proto = {"kind", "timestamp", "peer_observer_event"}
                    /\ proto.peer_observer_event =
                          Some([ kind |-> "RpcExtractor",
                                 rpc_event |-> Some(rpc_event) ])
              /\ qpc = "wrapped_msg" =>
                    /\ DOMAIN proto = {"kind", "timestamp", "event"}
                    /\ proto.event =
                          Some([ kind |-> "RpcExtractor",
                                 rpc_event |-> Some(rpc_event) ])

\* An envelope stamped 123 ms into a second, the 456789 ns beyond dropped,
\* around a peer list.
C22_Witness ==
    /\ qpc = "wrapped"
    /\ clock = [ before |-> FALSE, secs |-> "1700000000", nanos |-> 123456789 ]
    /\ proto.timestamp = "1700000000123"
    /\ proto.peer_observer_event.v.rpc_event.v.kind = "PeerInfos"
    /\ Len(proto.peer_observer_event.v.rpc_event.v.infos) = 3

----------------------------------------------------------------------------
\* Claims about leaving the loop

\* The loop is running: waiting in select! or inside a tick.
C23_InLoop == pc \in {"select", "query"}

\* This step is the loop observing a change whose current value is stop, or
\* finding the sender gone with nothing left to observe.
C23_ObservesStop ==
    /\ pc = "select"
    /\ \/ changed /\ value /\ ~changed'
       \/ ~changed /\ closed

\* This step is the loop observing a change whose current value is false.
C23_ObservesFalse == pc = "select" /\ changed /\ ~value /\ ~changed'

\* C23 (as stated): a step that leaves the running loop is the observation
\* of a stop or of the sender being gone, and it ends run with Ok; the
\* observation of a change whose value is false leaves the loop waiting in
\* select!.
C23_LoopEndsOnlyByStopWithOk ==
    [][ C23_InLoop =>
          /\ pc' \in {"select", "query", "returned_ok"}
          /\ pc' = "returned_ok" => C23_ObservesStop
          /\ C23_ObservesFalse => pc' = "select" ]_vars

\* C23 (amended): the same, except that the loop also ends, without run
\* returning at all, when the conversion of the getmemoryinfo response
\* panics; run never returns an error once the loop is entered.
C23_LoopEndsByStopOrPanic ==
    [][ C23_InLoop =>
          /\ pc' \in {"select", "query", "returned_ok", "panicked"}
          /\ pc' = "returned_ok" => C23_ObservesStop
          /\ pc' = "panicked" =>
                pc = "query" /\ QueryOrder[slot] = "getmemoryinfo"
          /\ C23_ObservesFalse => pc' = "select" ]_vars

\* run has returned Ok on an observed stop, after a tick in which a query
\* failed and others published, with the sender still there.
C23_Witness ==
    /\ pc = "returned_ok"
    /\ value
    /\ ~changed
    /\ ~closed
    /\ logged # << >>
    /\ published # << >>

----------------------------------------------------------------------------
\* Claims about the message of a line

\* The position of the closing bracket of the bracket token that starts at
\* position p of s, 0 when none starts there.
C24_TokenEnd(s, p) ==
    LET closing == { j \in p + 2 .. Len(s) : At(s, j) = "]" }
    IN  IF LitAt(s, p, "[") /\ ~LitAt(s, p + 1, "]") /\ closing # {}
        THEN Min(closing)
        ELSE 0

\* The whitespace characters that follow position e of s.
C24_Blanks(s, e) ==
    LET other == { k \in e + 1 .. Len(s) : At(s, k) \notin Space }
    IN  IF other = {} THEN Len(s) - e ELSE Min(other) - e - 1

\* From position p to its end s is bracket tokens and nothing else: each
\* token is followed by whitespace and another token, or directly by
\* another token, or it ends the line.
RECURSIVE C24_OnlyTokens(_, _)
C24_OnlyTokens(s, p) ==
    LET e == C24_TokenEnd(s, p)
    IN  /\ e # 0
        /\ \/ e = Len(s)
           \/ C24_OnlyTokens(s, e + C24_Blanks(s, e) + 1)

\* In a line of tokens only, the start of the first token that is not
\* followed by whitespace.
RECURSIVE C24_Kept(_, _)
C24_Kept(s, p) ==
    LET e == C24_TokenEnd(s, p)
    IN  IF C24_Blanks(s, e) = 0 THEN p
        ELSE C24_Kept(s, e + C24_Blanks(s, e) + 1)

\* Where the text after the timestamp and its whitespace starts.
C24_Start == TimestampEnd(input) + C24_Blanks(input, TimestampEnd(input)) + 1

\* The line is a timestamp, whitespace and bracket tokens only.
C24_TimestampAndTokens ==
    /\ TimestampEnd(input) # 0
    /\ C24_Blanks(input, TimestampEnd(input)) >= 1
    /\ C24_OnlyTokens(input, C24_Start)

\* C24: the message parse_log_event hands to the matchers (and returns as
\* raw_message when none of them matches) is empty exactly when the line
\* does not have the structural shape.  So a line of the shape that is a
\* timestamp followed by bracket tokens only has a message that is made of
\* its last tokens: it starts at the first token that no whitespace follows
\* and runs to the end of the line, and the metadata ends before it.
C24_EmptyIffNoShape ==
    Parsed =>
        LET msg == C17_Message
        IN  /\ (msg = "") <=> ~C13_HasShape(input)
            /\ log.log_event.kind = "UnknownLogMessage" =>
                  log.log_event.raw_message = msg
            /\ C13_HasShape(input) /\ C24_TimestampAndTokens =>
                  /\ msg = From(input, C24_Kept(input, C24_Start))
                  /\ Caps.metadata =
                        SubSeq(input, C24_Start,
                               C24_Kept(input, C24_Start) - 1)
                  /\ log.log_event.kind = "UnknownLogMessage"

\* A timestamp followed by two tokens has been parsed: the first one is the
\* threadname, the second one, a category name, is the message, and the
\* category is Unknown.
C24_Witness ==
    /\ Parsed
    /\ input = "2025-10-17T23:52:01.358911Z [msghand] [net]"
    /\ log.threadname = "msghand"
    /\ log.category = "Unknown"
    /\ log.log_event = [ kind |-> "UnknownLogMessage", raw_message |-> "[net]" ]

====
